---- MODULE Spec2Model ----
(***************************************************************************)
(* Verification model of cloud_optimized_dicom: the Series Object          *)
(* (CODObject), its Locker (CODLocker) and its Appender (CODAppender),     *)
(* working against one series of an object store.                          *)
(*                                                                         *)
(* The store holds, for the series, a lock blob, a metadata blob, a tar    *)
(* blob and an index blob.  Every request to the store (exists, reload,    *)
(* download, upload, delete) is one atomic step, so that the requests of   *)
(* two writers interleave freely.  Work on the local temp directory and    *)
(* on the in-memory metadata is private to its writer and is folded into   *)
(* the step of the store request it precedes or follows.                   *)
(*                                                                         *)
(* Conventions.                                                            *)
(*  - The constructor passes create_if_missing to CODLocker.acquire, whose  *)
(*    body has no use for it: acquire always calls get_metadata() with     *)
(*    the default create_if_missing=True.  The model follows the body of   *)
(*    acquire.                                                             *)
(*  - An Instance resurrected from the metadata blob has lost its cached   *)
(*    UIDs (cached = FALSE); the getters that would re-read the file are   *)
(*    taken to yield the UID under which the instance is keyed.            *)
(*  - Sizes and byte offsets are counted in tar blocks.                    *)
(***************************************************************************)
EXTENDS Integers, Sequences, FiniteSets, TLC

(* ----------------------------- bounds --------------------------------- *)

\* how many Series Objects the callers construct in all
MaxObjects == 2

\* how many instances one append call is given at most
MaxBatch == 1

\* how many members a local tar may grow to
MaxTarLen == 3

\* how often an operator removes a lock blob by hand
MaxSteals == 1

\* how many instances one append call is given at most in the runs of a
\* single caller
MaxAppendBatch == 2

\* custom tags of a Series Metadata that is serialized
MaxTags == 2

\* instances of a Series Metadata that is serialized
MaxMetadataInstances == 2

\* the concurrent callers, each working on its own Series Object; they are
\* interchangeable, and of the idle callers it is the first who constructs
\* the next object
Writers == {1, 2}

(* ------------------------ program constants --------------------------- *)

\* blocks that tarfile writes in front of the content of a member
\* (find_pattern locates the DICOM preamble at 1536 = 3 * 512 bytes)
TAR_HEADER_BLOCKS == 3

(* --------------------------- input files ------------------------------ *)

\* Hints: the size, hash and instance UID the caller states of a file; 0 is
\* None, a hint that is not set
Hints(size_hint, crc32c_hint, instance_uid_hint) ==
  [size |-> size_hint, crc32c |-> crc32c_hint, instance_uid |-> instance_uid_hint]

NoHints == Hints(0, 0, 0)

\* The files a caller can hand to append.  uri names the file; uid, crc and
\* size are what reading the file yields; remote says whether the uri is a
\* remote one (is_remote); series says whether the study/series UIDs of the
\* file are those of the Series Object; readable says whether tarfile can
\* still read the file when it is packed; hints says whether the caller
\* gave the Instance hints of its size, hash and UIDs, so that the getters
\* answer from the hints without fetching the file, and hinted is what the
\* hints say.
Inputs ==
  { [uri |-> "a",  uid |-> 1, crc |-> 11, size |-> 1, remote |-> TRUE,  series |-> TRUE, readable |-> TRUE, hints |-> FALSE, hinted |-> NoHints],
    [uri |-> "a2", uid |-> 1, crc |-> 12, size |-> 1, remote |-> TRUE,  series |-> TRUE, readable |-> TRUE, hints |-> FALSE, hinted |-> NoHints],
    [uri |-> "a3", uid |-> 1, crc |-> 13, size |-> 1, remote |-> TRUE,  series |-> TRUE, readable |-> TRUE, hints |-> TRUE,  hinted |-> Hints(1, 13, 1)],
    [uri |-> "a4", uid |-> 1, crc |-> 14, size |-> 1, remote |-> FALSE, series |-> TRUE, readable |-> TRUE, hints |-> TRUE,  hinted |-> Hints(1, 11, 1)],
    [uri |-> "c2", uid |-> 3, crc |-> 32, size |-> 1, remote |-> FALSE, series |-> TRUE, readable |-> TRUE, hints |-> TRUE,  hinted |-> Hints(2, 32, 3)],
    [uri |-> "b",  uid |-> 2, crc |-> 21, size |-> 2, remote |-> FALSE, series |-> TRUE, readable |-> TRUE, hints |-> FALSE, hinted |-> NoHints],
    [uri |-> "b2", uid |-> 2, crc |-> 22, size |-> 1, remote |-> FALSE, series |-> TRUE, readable |-> TRUE, hints |-> FALSE, hinted |-> NoHints],
    [uri |-> "c",  uid |-> 3, crc |-> 31, size |-> 1, remote |-> FALSE, series |-> TRUE, readable |-> TRUE, hints |-> FALSE, hinted |-> NoHints],
    [uri |-> "o",  uid |-> 5, crc |-> 51, size |-> 1, remote |-> FALSE, series |-> FALSE, readable |-> TRUE, hints |-> FALSE, hinted |-> NoHints],
    [uri |-> "x",  uid |-> 4, crc |-> 41, size |-> 1, remote |-> FALSE, series |-> TRUE, readable |-> FALSE, hints |-> FALSE, hinted |-> NoHints] }

Input(uri) == CHOOSE inst \in Inputs : inst.uri = uri

\* default caps of CODObject.append, max_instance_size and max_series_size
\* (in gb there, in blocks here)
DEFAULT_MAX_INSTANCE_SIZE == 10

DEFAULT_MAX_SERIES_SIZE == 100

\* One run: the series as earlier sessions left it in the store (stored, the
\* files they appended and synced, in order), the files the callers have at
\* hand and the caps they pass to append.  The other arguments the callers
\* pass are the defaults unless the run says otherwise: lock and
\* override_errors to the constructor (locks, overrides), create_if_missing
\* to the constructor (creates), dirty to the public methods (dirties,
\* "absent" for a call that does not name it); batch is the length of the
\* longest list handed to append.
Scenario(stored, uris, max_instance_size, max_series_size) ==
  [stored |-> [ i \in 1..Len(stored) |-> Input(stored[i]) ],
   files |-> { Input(u) : u \in uris },
   max_instance_size |-> max_instance_size,
   max_series_size |-> max_series_size,
   locks |-> {TRUE},
   overrides |-> {FALSE},
   creates |-> {TRUE},
   dirties |-> {"absent"},
   batch |-> MaxBatch,
   groups |-> {},
   requests |-> {}]

\* the runs of writers alone
Scenarios ==
  { Scenario(<<>>, {"a", "a2"}, DEFAULT_MAX_INSTANCE_SIZE, DEFAULT_MAX_SERIES_SIZE),
    Scenario(<<"a">>, {"b", "x"}, DEFAULT_MAX_INSTANCE_SIZE, DEFAULT_MAX_SERIES_SIZE),
    Scenario(<<"a">>, {"b", "c"}, DEFAULT_MAX_INSTANCE_SIZE, DEFAULT_MAX_SERIES_SIZE),
    Scenario(<<>>, {"a", "b"}, 1, DEFAULT_MAX_SERIES_SIZE),
    Scenario(<<>>, {"a", "b"}, DEFAULT_MAX_INSTANCE_SIZE, 2) }

\* the runs in which an operator clears locks
StealScenarios ==
  { Scenario(<<>>, {"a"}, DEFAULT_MAX_INSTANCE_SIZE, DEFAULT_MAX_SERIES_SIZE) }

\* the ways to pass dirty to a public method
DirtyKwargs == {"absent", "True", "False"}

\* the runs in which the callers use every option of the constructor and of
\* the public methods, and quarantine the series with an error log
ApiScenarios ==
  { [Scenario(<<>>, {"a"}, DEFAULT_MAX_INSTANCE_SIZE, DEFAULT_MAX_SERIES_SIZE)
       EXCEPT !.locks = BOOLEAN, !.overrides = BOOLEAN, !.dirties = DirtyKwargs],
    [Scenario(<<"a">>, {"b"}, DEFAULT_MAX_INSTANCE_SIZE, DEFAULT_MAX_SERIES_SIZE)
       EXCEPT !.locks = {FALSE}, !.creates = BOOLEAN, !.dirties = DirtyKwargs] }

\* the runs of a single caller who appends lists with repeated instances
AppendScenarios ==
  { [Scenario(<<>>, {"a", "a3"}, DEFAULT_MAX_INSTANCE_SIZE, DEFAULT_MAX_SERIES_SIZE)
       EXCEPT !.batch = MaxAppendBatch],
    [Scenario(<<"a">>, {"a", "a2", "b"}, DEFAULT_MAX_INSTANCE_SIZE, DEFAULT_MAX_SERIES_SIZE)
       EXCEPT !.batch = MaxAppendBatch],
    [Scenario(<<>>, {"b", "c", "x"}, 1, DEFAULT_MAX_SERIES_SIZE)
       EXCEPT !.batch = MaxAppendBatch],
    [Scenario(<<>>, {"b", "b2", "o"}, DEFAULT_MAX_INSTANCE_SIZE, DEFAULT_MAX_SERIES_SIZE)
       EXCEPT !.batch = MaxAppendBatch],
    [Scenario(<<>>, {"a", "b"}, DEFAULT_MAX_INSTANCE_SIZE, 3)
       EXCEPT !.batch = MaxAppendBatch],
    [Scenario(<<"a">>, {"a2", "x"}, DEFAULT_MAX_INSTANCE_SIZE, DEFAULT_MAX_SERIES_SIZE)
       EXCEPT !.batch = MaxAppendBatch] }

RECURSIVE SeqsUpTo(_, _)
SeqsUpTo(S, n) ==
  IF n = 0 THEN { <<>> }
  ELSE LET shorter == SeqsUpTo(S, n - 1)
       IN  shorter \cup { Append(s, x) : s \in { t \in shorter : Len(t) = n - 1 }, x \in S }

Batches(files, longest) == SeqsUpTo(files, longest) \ { <<>> }

(* ------------------------------ blobs --------------------------------- *)

NoBlob == [exists |-> FALSE, body |-> <<>>]

Blob(b) == [exists |-> TRUE, body |-> b]

(* ------------------------ tar and index files ------------------------- *)

\* number of blocks a tar with these members occupies before its end marker
RECURSIVE TarEnd(_)
TarEnd(members) ==
  IF members = <<>> THEN 0
  ELSE TarEnd(SubSeq(members, 1, Len(members) - 1))
       + TAR_HEADER_BLOCKS + members[Len(members)].size

\* the member records a scan of the tar finds, with the offset of each
\* member's content
ScanTar(members) ==
  [ i \in 1..Len(members) |->
      [uid   |-> members[i].uid,
       crc   |-> members[i].crc,
       start |-> TarEnd(SubSeq(members, 1, i - 1)) + TAR_HEADER_BLOCKS,
       stop  |-> TarEnd(SubSeq(members, 1, i - 1)) + TAR_HEADER_BLOCKS + members[i].size] ]

\* an index that misses the member the tar got last
create_sqlite_index_without_last(members) ==
  [ i \in 1..(Len(members) - 1) |->
      [uid |-> ScanTar(members)[i].uid, start |-> ScanTar(members)[i].start] ]

\* what rmc_open(writeIndex=True) records: the path and offset of each member
create_sqlite_index(members) ==
  [ i \in 1..Len(members) |->
      [uid |-> ScanTar(members)[i].uid, start |-> ScanTar(members)[i].start] ]

(* --------------------------- series metadata -------------------------- *)

\* SeriesMetadata.to_dict / Instance.to_cod_dict_v1: the record written for
\* each instance; the cached UIDs of the Instance object are not written
to_cod_dict_v1(e) ==
  [uid |-> e.uid, crc |-> e.crc, size |-> e.size,
   start |-> e.start, stop |-> e.stop, dupes |-> e.dupes, metadata |-> e.metadata]

to_gzipped_json(instances) ==
  [ i \in 1..Len(instances) |-> to_cod_dict_v1(instances[i]) ]

\* Instance.from_cod_dict_v1: an Instance without cached UIDs
from_cod_dict_v1(d) ==
  [uid |-> d.uid, crc |-> d.crc, size |-> d.size,
   start |-> d.start, stop |-> d.stop, dupes |-> d.dupes, metadata |-> d.metadata,
   cached |-> FALSE]

from_blob(body) ==
  [ i \in 1..Len(body) |-> from_cod_dict_v1(body[i]) ]

Keys(instances) == { instances[i].uid : i \in 1..Len(instances) }

NoMetadata == [loaded |-> FALSE, instances |-> <<>>]

(* ------------------- series metadata, serialization ------------------- *)

\* a value of a Python dict or of a JSON text: its form ("str", "list",
\* "tuple", "dict" in Python, "string", "array", "object" in JSON) and what
\* it holds
Value(form, items) == [form |-> form, items |-> items]

Str(n) == Value("str", <<n>>)

\* a dict, or a JSON object, is the list of its keys with their values, in
\* the order of insertion
Pair(key, value) == [key |-> key, value |-> value]

HasKey(d, key) == \E i \in 1..Len(d) : d[i].key = key

Get(d, key) == d[CHOOSE i \in 1..Len(d) : d[i].key = key].value

\* dict.pop(key)
Pop(d, key) == SelectSeq(d, LAMBDA p : p.key # key)

\* {**d, **fields}: a key that d has keeps its place and takes the value of
\* fields, a key that d has not is added at the end
RECURSIVE Update(_, _)
Update(d, fields) ==
  IF fields = <<>> THEN d
  ELSE LET p == Head(fields)
       IN  Update(IF HasKey(d, p.key)
                    THEN [ i \in 1..Len(d) |-> IF d[i].key = p.key THEN p ELSE d[i] ]
                    ELSE Append(d, p),
                  Tail(fields))

\* json.dumps: strings become JSON strings, lists and tuples arrays, dicts
\* objects with their keys in order
json_dumps(d) ==
  [ i \in 1..Len(d) |->
      Pair(d[i].key,
           Value(CASE d[i].value.form = "str" -> "string"
                   [] d[i].value.form \in {"list", "tuple"} -> "array"
                   [] d[i].value.form = "dict" -> "object",
                 d[i].value.items)) ]

\* json.loads: JSON strings become str, arrays lists, objects dicts
json_loads(bytes) ==
  [ i \in 1..Len(bytes) |->
      Pair(bytes[i].key,
           Value(CASE bytes[i].value.form = "string" -> "str"
                   [] bytes[i].value.form = "array" -> "list"
                   [] bytes[i].value.form = "object" -> "dict",
                 bytes[i].value.items)) ]

\* a to_dict that writes the plain key names whatever the flag
to_dict_plain_keys(m) ==
  Update(<< Pair("study_uid", m.study_uid),
            Pair("series_uid", m.series_uid),
            Pair("cod", Value("dict", to_gzipped_json(m.instances))) >>,
         m.metadata_fields)

\* SeriesMetadata.to_dict
to_dict(m) ==
  LET study_uid_key  == IF m.hashed_uids THEN "deid_study_uid" ELSE "study_uid"
      series_uid_key == IF m.hashed_uids THEN "deid_series_uid" ELSE "series_uid"
      base_dict == << Pair(study_uid_key, m.study_uid),
                      Pair(series_uid_key, m.series_uid),
                      Pair("cod", Value("dict", to_gzipped_json(m.instances))) >>
  IN  Update(base_dict, m.metadata_fields)

\* SeriesMetadata.to_bytes
to_bytes(m) == json_dumps(to_dict(m))

NoSeriesMetadata ==
  [study_uid |-> Str(0), series_uid |-> Str(0), hashed_uids |-> FALSE,
   instances |-> <<>>, metadata_fields |-> <<>>, is_sorted |-> FALSE]

\* SeriesMetadata.from_dict: the exception it raises (pop of a key that is
\* not there is a KeyError, get on a value that is no dict an
\* AttributeError) and the SeriesMetadata it returns
from_dict(series_metadata_dict) ==
  LET is_hashed == HasKey(series_metadata_dict, "deid_study_uid")
      study_uid_key  == IF is_hashed THEN "deid_study_uid" ELSE "study_uid"
      series_uid_key == IF is_hashed THEN "deid_series_uid" ELSE "series_uid"
  IN  IF \/ ~HasKey(series_metadata_dict, study_uid_key)
         \/ ~HasKey(series_metadata_dict, series_uid_key)
         \/ ~HasKey(series_metadata_dict, "cod")
        THEN [raised |-> "KeyError", m |-> NoSeriesMetadata]
      ELSE IF Get(series_metadata_dict, "cod").form # "dict"
        THEN [raised |-> "AttributeError", m |-> NoSeriesMetadata]
      ELSE [raised |-> "none",
            m |-> [study_uid  |-> Get(series_metadata_dict, study_uid_key),
                   series_uid |-> Get(series_metadata_dict, series_uid_key),
                   hashed_uids |-> is_hashed,
                   instances |-> from_blob(Get(series_metadata_dict, "cod").items),
                   metadata_fields |-> Pop(Pop(Pop(series_metadata_dict, study_uid_key),
                                               series_uid_key), "cod"),
                   is_sorted |-> FALSE]]

\* SeriesMetadata.from_bytes
from_bytes(bytes) == from_dict(json_loads(bytes))

\* an Optional[str]: None, or a string as the list of its characters
None == [none |-> TRUE, text |-> <<>>]

Some(text) == [none |-> FALSE, text |-> text]

\* the truth value Python gives an Optional[str]: None and "" are false
Truthy(optional) == ~optional.none /\ optional.text # <<>>

\* a request string "<verb> <scheme><segment>/<segment>/...": each segment
\* is the list of its characters, a keyword of the protocol ("studies",
\* "series", "instances", "frames", "metadata") or the name of the bucket
\* counting as one character
Request(verb, scheme, segments) ==
  [verb |-> verb, scheme |-> scheme, segments |-> segments]

NoText == Request("", "", <<>>)

\* DicomwebRequest
DicomwebRequest(datastore_uri, study_uid, series_uid, instance_uid, frames) ==
  [datastore_uri |-> datastore_uri, study_uid |-> study_uid, series_uid |-> series_uid,
   instance_uid |-> instance_uid, frames |-> frames]

NoParsed == DicomwebRequest(<<>>, None, None, None, <<>>)

\* no dicomweb request: the request string, the DicomwebRequest parsed from
\* it, the exception raised, whether a Series Object was constructed for it
\* and reached the store, and the response
NoRequest ==
  [stage |-> "idle", text |-> NoText, parsed |-> NoParsed, error |-> "none",
   opened |-> FALSE, response |-> <<>>]

\* a dependency URI: whether it starts with gs://, and whether it is nested
\* (has ".tar://" or ".zip://" in it)
Dependency(uri, scheme, nested) == [uri |-> uri, scheme |-> scheme, nested |-> nested]

\* two blobs, a local file, and a member of a tar blob and of a local zip
Dependencies ==
  { Dependency("g1", "gs://", FALSE), Dependency("g2", "gs://", FALSE),
    Dependency("l1", "", FALSE), Dependency("n1", "gs://", TRUE),
    Dependency("n2", "", TRUE) }

\* a blob or file that is not there
Absent == [exists |-> FALSE, crc |-> 0]

\* no delete_dependencies call: its arguments, the CRC32C of the instance,
\* the position of the loop, the exception raised, the list returned, the
\* blobs and files that the call deleted, and the blobs and files at the
\* dependency URIs
NoDeletion ==
  [stage |-> "idle", dependencies |-> <<>>, dryrun |-> FALSE, validate_blob_hash |-> TRUE,
   crc32c |-> 0, at |-> 0, error |-> "none", returned |-> <<>>, removed |-> <<>>,
   blobs |-> [ d \in Dependencies |-> Absent ]]

\* no instance open: the instance that open() was called on (its UID, its
\* size, whether its _byte_offsets were set), the exception raised, and the
\* bounds [start, stop) of the VirtualFile returned
NoPointer ==
  [stage |-> "idle", uid |-> 0, size |-> 0, has_byte_offsets |-> FALSE, error |-> "none",
   start |-> 0, stop |-> 0]

\* the codec at rest
NoCodec ==
  [stage |-> "idle", m |-> NoSeriesMetadata, bytes |-> <<>>,
   loaded |-> [raised |-> "none", m |-> NoSeriesMetadata], saved |-> <<>>]

(* ------------------------------ state --------------------------------- *)

VARIABLES
  lock_blob,        \* generation of the lock blob, 0 when there is none
  next_generation,  \* generation the store gives to the next lock blob
  metadata_blob,    \* metadata.json of the series
  tar_blob,         \* <series>.tar
  index_blob,       \* index.sqlite
  error_log,        \* error.log of the series
  steals,           \* lock blobs removed by hand so far
  offered,          \* the files and caps the callers have at hand
  objects,          \* Series Objects constructed so far
  pc,               \* where each caller is: "none" without a Series Object,
                    \* "held" with one and no call under way, else the
                    \* request its call makes next
  lock,             \* the lock argument the object was constructed with
  lock_generation,  \* CODLocker.lock_generation, 0 for None
  metadata,         \* CODObject._metadata
  tar_synced,       \* CODObject._tar_synced
  metadata_synced,  \* CODObject._metadata_synced
  temp_dir,         \* whether the temp directory of the caller's current or
                    \* last Series Object is on disk
  tar_file,         \* members of the tar in the temp directory
  index_file,       \* the index in the temp directory
  err,              \* exception the caller's last call raised, "none" if none
  append_instances, \* the list the caller's last append was given
  append_result,    \* AppendResult of the caller's last append
  sync_uploads,     \* blobs the caller's current or last sync uploaded, in order
  codec,            \* a Series Metadata on its way to bytes and back
  init_args,        \* what the constructor call of the caller's current or
                    \* last object was given for lock_generation, temp_dir,
                    \* _tar_synced and _metadata_synced, and the metadata
                    \* dict that deserialize sets on the object it made
  serialized,       \* the dict that the last serialize() returned
  request,          \* the dicomweb request being served, and its response
  deletion,         \* the delete_dependencies call under way, and what it returned
  pointer           \* the file pointer that the last Instance.open() returned

store == <<lock_blob, next_generation, metadata_blob, tar_blob, index_blob, error_log>>

object == <<lock, lock_generation, metadata, tar_synced, metadata_synced, temp_dir,
            tar_file, index_file>>

\* what goes on beside the writers
aside == <<request, deletion, pointer>>

env == <<steals, offered, codec, init_args, serialized, aside>>

vars == <<lock_blob, next_generation, metadata_blob, tar_blob, index_blob, error_log,
          steals, offered, objects, pc, lock, lock_generation, metadata, tar_synced,
          metadata_synced, temp_dir, tar_file, index_file, err, append_instances,
          append_result, sync_uploads, codec, init_args, serialized, request, deletion,
          pointer>>

EmptyResult == [new |-> <<>>, same |-> <<>>, conflict |-> <<>>, errors |-> <<>>]

\* no lock and no Series Object
Start ==
  /\ lock_blob = 0
  /\ next_generation = 1
  /\ error_log = NoBlob
  /\ steals = 0
  /\ objects = 0
  /\ pc = [w \in Writers |-> "none"]
  /\ lock = [w \in Writers |-> FALSE]
  /\ temp_dir = [w \in Writers |-> FALSE]
  /\ append_instances = [w \in Writers |-> <<>>]
  /\ lock_generation = [w \in Writers |-> 0]
  /\ metadata = [w \in Writers |-> NoMetadata]
  /\ tar_synced = [w \in Writers |-> FALSE]
  /\ metadata_synced = [w \in Writers |-> TRUE]
  /\ tar_file = [w \in Writers |-> <<>>]
  /\ index_file = [w \in Writers |-> NoBlob]
  /\ err = [w \in Writers |-> "none"]
  /\ append_result = [w \in Writers |-> EmptyResult]
  /\ sync_uploads = [w \in Writers |-> <<>>]

\* the defaults of CODObject.__init__: lock_generation None, temp_dir None,
\* _tar_synced False, _metadata_synced True; no metadata dict to set
DefaultArgs ==
  [lock_generation |-> 0, temp_dir |-> FALSE, tar_synced |-> FALSE,
   metadata_synced |-> TRUE, given |-> FALSE, metadata_dict |-> <<>>]

NoState ==
  [taken |-> FALSE, lock_generation |-> 0, temp_dir |-> FALSE, tar_file |-> <<>>,
   index_file |-> NoBlob, tar_synced |-> FALSE, metadata_synced |-> TRUE,
   metadata_dict |-> <<>>]

\* no request is being served, no dependency being deleted and no
\* instance open
Quiet ==
  /\ request = NoRequest
  /\ deletion = NoDeletion
  /\ pointer = NoPointer

\* no Series Metadata is being serialized and no Series Object was
\* serialized
Idle ==
  /\ codec = NoCodec
  /\ init_args = [w \in Writers |-> DefaultArgs]
  /\ serialized = NoState
  /\ Quiet

(* --------------------------- small helpers ---------------------------- *)

Set(f, w, v) == [f EXCEPT ![w] = v]

\* the fields of a Series Object that has just been created, or that is gone
Fresh(w) ==
  /\ lock' = Set(lock, w, FALSE)
  /\ lock_generation' = Set(lock_generation, w, 0)
  /\ metadata' = Set(metadata, w, NoMetadata)
  /\ tar_synced' = Set(tar_synced, w, FALSE)
  /\ metadata_synced' = Set(metadata_synced, w, TRUE)
  /\ tar_file' = Set(tar_file, w, <<>>)
  /\ index_file' = Set(index_file, w, NoBlob)

\* the caller is left without a Series Object, with exception e
Gone(w, e) ==
  /\ pc' = Set(pc, w, "none")
  /\ err' = Set(err, w, e)
  /\ append_instances' = Set(append_instances, w, <<>>)
  /\ append_result' = Set(append_result, w, EmptyResult)
  /\ sync_uploads' = Set(sync_uploads, w, <<>>)
  /\ Fresh(w)

\* the constructor or __exit__ raised e (or __exit__ returned, e = "none"):
\* the object is gone; what it left on disk stays there
ObjectGone(w, e) ==
  /\ Gone(w, e)
  /\ UNCHANGED temp_dir

\* a call on the object returned (e = "none") or raised e; the object lives on
Returned(w, e) ==
  /\ pc' = Set(pc, w, "held")
  /\ err' = Set(err, w, e)

\* the call goes on to its next request
Goto(w, label) ==
  /\ pc' = Set(pc, w, label)
  /\ err' = Set(err, w, "none")

\* what the last call of the caller left behind: its arguments and results
last_call == <<append_instances, append_result, sync_uploads>>

(* ---------------------------- constructor ----------------------------- *)

\* a constructor that gives every object a Locker
has_locker_always(lock_argument) == TRUE

\* CODObject.__init__: self._locker = CODLocker(self) if lock else None;
\* CODObject.lock: self._locker is not None
has_locker(lock_argument) == lock_argument

\* a constructor that takes no notice of an error log
init_error_log_ignored(found, override_errors) == "proceed"

\* CODObject.__init__, the check for error.log: what the constructor does
\* once exists() has answered
init_error_log(found, override_errors) ==
  IF found
    THEN IF override_errors THEN "init_delete" ELSE "ErrorLogExistsError"
    ELSE "proceed"

\* CODObject.__init__ after the error log check: the request it makes next
init_proceed(lock_argument) ==
  IF has_locker(lock_argument) THEN "acq_exists" ELSE "init_fetch"

\* CODObject.__init__ up to its first request: error_log_blob.exists().  Of
\* the callers without an object the first constructs the next one.
Construct(w) ==
  /\ pc[w] = "none"
  /\ objects < MaxObjects
  /\ \A v \in Writers : v < w => pc[v] # "none"
  /\ objects' = objects + 1
  /\ \E lock_argument \in offered.locks, override_errors \in offered.overrides :
       LET then == init_error_log(error_log.exists, override_errors)
       IN  IF then = "ErrorLogExistsError"
             THEN /\ Gone(w, then)
                  /\ temp_dir' = Set(temp_dir, w, DefaultArgs.temp_dir)
             ELSE /\ Goto(w, IF then = "proceed" THEN init_proceed(lock_argument) ELSE then)
                  /\ lock' = Set(lock, w, lock_argument)
                  /\ temp_dir' = Set(temp_dir, w, DefaultArgs.temp_dir)
                  /\ UNCHANGED <<lock_generation, metadata, tar_synced, metadata_synced,
                                 tar_file, index_file, last_call>>
  /\ init_args' = Set(init_args, w, DefaultArgs)
  /\ UNCHANGED <<store, steals, offered, codec, serialized, aside>>

\* __init__ with override_errors: error_log_blob.delete(); delete of a blob
\* that is gone raises NotFound
InitDeleteErrorLog(w) ==
  /\ pc[w] = "init_delete"
  /\ IF error_log.exists
       THEN /\ error_log' = NoBlob
            /\ Goto(w, init_proceed(lock[w]))
            /\ UNCHANGED <<object, last_call>>
       ELSE /\ ObjectGone(w, "NotFound")
            /\ UNCHANGED error_log
  /\ UNCHANGED <<lock_blob, next_generation, metadata_blob, tar_blob, index_blob, env, objects>>

\* CODObject.get_metadata: the exception it raises
get_metadata_raises(loaded, blob, create_if_missing) ==
  IF ~loaded.loaded /\ ~blob.exists /\ ~create_if_missing
    THEN "CODObjectNotFoundError"
    ELSE "none"

\* CODObject.get_metadata: the metadata blob if there is one, else an empty
\* SeriesMetadata
get_metadata(loaded, blob) ==
  IF loaded.loaded THEN loaded
  ELSE IF blob.exists
    THEN [loaded |-> TRUE, instances |-> from_blob(blob.body)]
    ELSE [loaded |-> TRUE, instances |-> <<>>]

\* the metadata of the object when its making is over: what the constructor
\* has fetched, or, in deserialize, SeriesMetadata.from_dict of the dict of
\* the serialized object
init_metadata(args, fetched) ==
  IF args.given
    THEN [loaded |-> TRUE, instances |-> from_dict(args.metadata_dict).m.instances]
    ELSE fetched

\* __init__ with lock=False: get_metadata(create_if_missing, dirty=True), then
\* the synced flags get the values of the arguments, by default False and
\* True
InitFetchMetadata(w) ==
  /\ pc[w] = "init_fetch"
  /\ \E create_if_missing \in offered.creates :
       LET e == get_metadata_raises(metadata[w], metadata_blob, create_if_missing)
       IN  IF e # "none"
             THEN ObjectGone(w, e)
             ELSE /\ metadata' = Set(metadata, w,
                                     init_metadata(init_args[w],
                                                   get_metadata(metadata[w], metadata_blob)))
                  /\ tar_synced' = Set(tar_synced, w, init_args[w].tar_synced)
                  /\ metadata_synced' = Set(metadata_synced, w, init_args[w].metadata_synced)
                  /\ Returned(w, "none")
                  /\ UNCHANGED <<lock, lock_generation, temp_dir, tar_file, index_file, last_call>>
  /\ UNCHANGED <<store, env, objects>>

(* ------------------------------ Locker -------------------------------- *)

\* an upload of the lock blob that states no precondition
upload_without_precondition(generation) == TRUE

\* upload_from_string(..., if_generation_match=0): the store accepts the
\* upload only if the blob has no live generation
if_generation_match_0(generation) == generation = 0

\* CODLocker.acquire, the first branch: what acquire does once exists() has
\* answered
acquire_first(found) == IF found # 0 THEN "acq_reload" ELSE "acq_fetch"

\* CODObject.__init__ with lock=True: the first request of acquire,
\* get_lock_blob().exists()
AcquireExists(w) ==
  /\ pc[w] = "acq_exists"
  /\ Goto(w, acquire_first(lock_blob))
  /\ UNCHANGED <<store, env, objects, object, last_call>>

\* CODLocker.acquire, the comparison after reload(): the exception raised;
\* an acquire that takes every lock blob it finds for its own
acquire_reload_any_generation(found, remembered) ==
  IF found = 0 THEN "NotFound" ELSE "none"

\* reload of a blob that is gone raises NotFound
acquire_reload(found, remembered) ==
  IF found = 0 THEN "NotFound"
  ELSE IF found # remembered THEN "LockAcquisitionError"
  ELSE "none"

\* acquire, lock blob found: reload() and compare the generation with the
\* remembered one
AcquireReload(w) ==
  /\ pc[w] = "acq_reload"
  /\ IF acquire_reload(lock_blob, lock_generation[w]) # "none"
       THEN ObjectGone(w, acquire_reload(lock_blob, lock_generation[w]))
       ELSE /\ Returned(w, "none")
            /\ metadata' = Set(metadata, w, init_metadata(init_args[w], metadata[w]))
            /\ tar_synced' = Set(tar_synced, w, init_args[w].tar_synced)
            /\ metadata_synced' = Set(metadata_synced, w, init_args[w].metadata_synced)
            /\ UNCHANGED <<lock, lock_generation, temp_dir, tar_file, index_file, last_call>>
  /\ UNCHANGED <<store, env, objects>>

\* acquire, step 1: fetch metadata
AcquireFetchMetadata(w) ==
  /\ pc[w] = "acq_fetch"
  /\ metadata' = Set(metadata, w, get_metadata(metadata[w], metadata_blob))
  /\ Goto(w, "acq_upload")
  /\ UNCHANGED <<store, env, objects, lock, lock_generation, tar_synced, metadata_synced,
                 temp_dir, tar_file, index_file, last_call>>

\* acquire, steps 2 and 3: create the lock blob and record its generation;
\* then the constructor sets the synced flags to their defaults
AcquireUpload(w) ==
  /\ pc[w] = "acq_upload"
  /\ IF if_generation_match_0(lock_blob)
       THEN /\ lock_blob' = next_generation
            /\ next_generation' = next_generation + 1
            /\ lock_generation' = Set(lock_generation, w, next_generation)
            /\ metadata' = Set(metadata, w, init_metadata(init_args[w], metadata[w]))
            /\ tar_synced' = Set(tar_synced, w, init_args[w].tar_synced)
            /\ metadata_synced' = Set(metadata_synced, w, init_args[w].metadata_synced)
            /\ Returned(w, "none")
            /\ UNCHANGED <<lock, temp_dir, tar_file, index_file, last_call>>
       ELSE /\ ObjectGone(w, "LockAcquisitionError")
            /\ UNCHANGED <<lock_blob, next_generation>>
  /\ UNCHANGED <<metadata_blob, tar_blob, index_blob, error_log, env, objects>>

\* a verify that does not ask whether the lock blob exists
verify_exists_skipped(found) == "none"

\* CODLocker.verify, the exists() check: the exception it raises
verify_exists(found) ==
  IF found = 0 THEN "LockVerificationError" ELSE "none"

\* a verify that does not compare the generation it finds
verify_without_generation(found, remembered) ==
  IF found = 0 THEN "NotFound" ELSE "none"

\* CODLocker.verify, the comparison after reload(): the exception it raises;
\* reload of a blob that is gone raises NotFound
verify(found, remembered) ==
  IF found = 0 THEN "NotFound"
  ELSE IF found # remembered THEN "LockVerificationError"
  ELSE "none"

(* ------------------------------ __exit__ ------------------------------ *)

\* an __exit__ that releases the lock whatever the exception
exit_releases_always(has_lock, exc_type) == has_lock

\* CODObject.__exit__: whether it calls release, if self.lock and
\* exc_type is None
exit_releases(has_lock, exc_type) == has_lock /\ exc_type = "none"

\* CODObject.__exit__ without an exception: release, whose first request is
\* that of verify; an object without a Locker has nothing to release
ReleaseExists(w) ==
  /\ pc[w] = "held"
  /\ IF ~exit_releases(has_locker(lock[w]), "none")
       THEN ObjectGone(w, "none")
       ELSE IF verify_exists(lock_blob) # "none"
         THEN ObjectGone(w, verify_exists(lock_blob))
         ELSE /\ Goto(w, "rel_reload")
              /\ append_instances' = Set(append_instances, w, <<>>)
              /\ append_result' = Set(append_result, w, EmptyResult)
              /\ sync_uploads' = Set(sync_uploads, w, <<>>)
              /\ UNCHANGED object
  /\ UNCHANGED <<store, env, objects>>

\* release: second request of verify
ReleaseReload(w) ==
  /\ pc[w] = "rel_reload"
  /\ IF verify(lock_blob, lock_generation[w]) # "none"
       THEN ObjectGone(w, verify(lock_blob, lock_generation[w]))
       ELSE /\ Goto(w, "rel_delete")
            /\ UNCHANGED <<object, last_call>>
  /\ UNCHANGED <<store, env, objects>>

\* release: lock_blob.delete(); Blob.delete addresses the generation that
\* reload() has loaded into the blob object, which verify found to be the
\* remembered one
\* a delete that addresses whatever generation is live
delete_generation_live(reloaded, live) == live

\* lock_blob.delete(): the generation that the request addresses is the one
\* that reload() put in the blob object, which verify found to be the
\* remembered one
delete_generation(reloaded, live) == reloaded

ReleaseDelete(w) ==
  /\ pc[w] = "rel_delete"
  /\ IF lock_blob = delete_generation(lock_generation[w], lock_blob)
       THEN /\ lock_blob' = 0
            /\ ObjectGone(w, "none")
       ELSE /\ ObjectGone(w, "NotFound")
            /\ UNCHANGED lock_blob
  /\ UNCHANGED <<next_generation, metadata_blob, tar_blob, index_blob, error_log, env, objects>>

\* CODObject.__exit__ with an exception: the lock is left hanging and the
\* exception goes on to the caller (__exit__ returns False)
ExitWithException(w) ==
  /\ pc[w] = "held"
  /\ IF exit_releases(has_locker(lock[w]), "Exception")
       THEN /\ Goto(w, "rel_reload")
            /\ UNCHANGED <<object, last_call>>
       ELSE ObjectGone(w, "Exception")
  /\ UNCHANGED <<store, env, objects>>

(* ------------------------------ Appender ------------------------------ *)

RECURSIVE SumSizes(_)
SumSizes(seq) ==
  IF seq = <<>> THEN 0 ELSE seq[1].size + SumSizes(Tail(seq))

Error(inst, kind) == [uri |-> inst.uri, error |-> kind]

Uris(seq) == [ i \in 1..Len(seq) |-> seq[i].uri ]

\* Instance.size, Instance.crc32c, Instance.instance_uid: the hint if the
\* caller trusts hints and the hint is set, else what the file holds
size(inst, trust_hints_if_available) ==
  IF trust_hints_if_available /\ inst.hinted.size # 0 THEN inst.hinted.size ELSE inst.size

crc32c(inst, trust_hints_if_available) ==
  IF trust_hints_if_available /\ inst.hinted.crc32c # 0 THEN inst.hinted.crc32c ELSE inst.crc

instance_uid(inst, trust_hints_if_available) ==
  IF trust_hints_if_available /\ inst.hinted.instance_uid # 0
    THEN inst.hinted.instance_uid
    ELSE inst.uid

\* Hints.validate: the exception it raises
hints_validate(hints, true_size, true_crc32c, true_instance_uid) ==
  IF \/ hints.size # 0 /\ hints.size # true_size
     \/ hints.crc32c # 0 /\ hints.crc32c # true_crc32c
     \/ hints.instance_uid # 0 /\ hints.instance_uid # true_instance_uid
    THEN "AssertionError"
    ELSE "none"

\* Instance.validate: the file is read, what it holds is cached and the
\* hints are compared with it
validate(inst) == hints_validate(inst.hinted, inst.size, inst.crc, inst.uid)

\* whether a getter that does not trust hints has to read the file of the
\* instance: nothing is cached yet.  The size gate has read the files that
\* came without hints; read holds the files that were read since.
reads_file(inst, read) == inst.hints /\ inst.uri \notin read

\* the sizes that _assert_not_too_large adds up: cur_size of each instance
Sizes(instances) == [ i \in 1..Len(instances) |-> [size |-> size(instances[i], TRUE)] ]

\* a size gate without a cap for the series
assert_not_too_large_unlimited(instances, max_instance_size, max_series_size, existing) ==
  LET filtered == SelectSeq(instances, LAMBDA inst : ~(size(inst, TRUE) > max_instance_size))
      dropped  == SelectSeq(instances, LAMBDA inst : size(inst, TRUE) > max_instance_size)
  IN  [raised    |-> FALSE,
       instances |-> filtered,
       errors    |-> [ i \in 1..Len(dropped) |-> Error(dropped[i], "Overlarge") ]]

\* a size gate that drops no instance
assert_not_too_large_unfiltered(instances, max_instance_size, max_series_size, existing) ==
  [raised    |-> SumSizes(Sizes(instances)) + SumSizes(existing) > max_series_size,
   instances |-> instances,
   errors    |-> <<>>]

\* CODAppender._assert_not_too_large
assert_not_too_large(instances, max_instance_size, max_series_size, existing) ==
  LET filtered == SelectSeq(instances, LAMBDA inst : ~(size(inst, TRUE) > max_instance_size))
      dropped  == SelectSeq(instances, LAMBDA inst : size(inst, TRUE) > max_instance_size)
      grouping_size == SumSizes(Sizes(filtered)) + SumSizes(existing)
  IN  [raised    |-> grouping_size > max_series_size,
       instances |-> filtered,
       errors    |-> [ i \in 1..Len(dropped) |-> Error(dropped[i], "Overlarge") ]]

\* CODAppender._dedupe, is_remote(instance.dicom_uri): without hints the
\* size gate has already read the file, which fetched a remote file and made
\* dicom_uri a local path; with hints the file was not fetched
dedupe_is_remote(inst) == inst.remote /\ inst.hints

\* CODAppender._dedupe, the loop body for instances[i].  The instance is
\* compared with the one kept under its instance UID, whose crc32c() is
\* asked without trust in hints: if that is the first read of the kept
\* instance, validate runs on it, and the AssertionError of a wrong hint is
\* caught by the loop, which puts instances[i] in errors and leaves the kept
\* instance where it is, its values cached.  A conflicting instance whose
\* dicom_uri is remote is handed to append_diff_hash_dupe as its dicom_uri,
\* a str, of which append_diff_hash_dupe asks instance_uid: AttributeError,
\* caught by the loop, which puts the instance in errors after it was put
\* in conflict.
RECURSIVE dedupe(_, _, _)
dedupe(instances, i, acc) ==
  IF i > Len(instances) THEN acc
  ELSE
    LET inst == instances[i]
        pre  == SelectSeq(acc.kept,
                          LAMBDA k : instance_uid(k, TRUE) = instance_uid(inst, TRUE))
    IN  IF pre = <<>>
          THEN dedupe(instances, i + 1, [acc EXCEPT !.kept = Append(@, inst)])
          ELSE IF reads_file(pre[1], acc.read) /\ validate(pre[1]) # "none"
            THEN dedupe(instances, i + 1,
                        [acc EXCEPT !.errors = Append(@, Error(inst, validate(pre[1]))),
                                    !.read = @ \cup {pre[1].uri}])
          ELSE IF crc32c(inst, TRUE) # crc32c(pre[1], FALSE)
            THEN IF dedupe_is_remote(inst)
                   THEN dedupe(instances, i + 1,
                               [acc EXCEPT !.conflict = Append(@, inst),
                                           !.errors = Append(@, Error(inst, "AttributeError")),
                                           !.read = @ \cup {pre[1].uri}])
                   ELSE dedupe(instances, i + 1,
                               [acc EXCEPT !.conflict = Append(@, inst),
                                           !.read = @ \cup {pre[1].uri}])
            ELSE dedupe(instances, i + 1,
                        [acc EXCEPT !.same = Append(@, inst),
                                    !.read = @ \cup {pre[1].uri}])

\* an ownership check that lets every instance through
assert_instances_belong_unchecked(instances, read) ==
  [instances |-> instances, errors |-> <<>>]

\* CODAppender._assert_instances_belong_to_cod_obj: the check asks
\* study_uid() and series_uid() without trust in hints, which reads a file
\* that was not read yet and validates its hints; both the wrong hint and
\* the foreign series are an AssertionError
assert_instances_belong_to_cod_obj(instances, read) ==
  LET belongs(inst) == /\ ~(reads_file(inst, read) /\ validate(inst) # "none")
                       /\ inst.series
      out == SelectSeq(instances, LAMBDA inst : ~belongs(inst))
  IN  [instances |-> SelectSeq(instances, belongs),
       errors    |-> [ i \in 1..Len(out) |-> Error(out[i], "AssertionError") ]]

Entry(existing, uid) == SelectSeq(existing, LAMBDA e : e.uid = uid)[1]

\* a classification that takes every instance for a new one
calculate_state_change_all_new(instances, existing) ==
  [new |-> instances, same |-> <<>>, diff |-> <<>>]

\* a classification that takes every instance for one the series has
calculate_state_change_all_same(instances, existing) ==
  [new |-> <<>>, same |-> instances, diff |-> <<>>]

\* CODAppender._calculate_state_change
calculate_state_change(instances, existing) ==
  IF Len(existing) = 0
    THEN [new |-> instances, same |-> <<>>, diff |-> <<>>]
    ELSE [new  |-> SelectSeq(instances, LAMBDA inst :
                      instance_uid(inst, TRUE) \notin Keys(existing)),
          same |-> SelectSeq(instances, LAMBDA inst :
                      /\ instance_uid(inst, TRUE) \in Keys(existing)
                      /\ crc32c(inst, TRUE) = Entry(existing, instance_uid(inst, TRUE)).crc),
          diff |-> SelectSeq(instances, LAMBDA inst :
                      /\ instance_uid(inst, TRUE) \in Keys(existing)
                      /\ crc32c(inst, TRUE) # Entry(existing, instance_uid(inst, TRUE)).crc)]

InSeq(x, seq) == \E i \in 1..Len(seq) : seq[i] = x

\* a dupe list that takes every dupe it is offered
append_diff_hash_dupe_always(e, dupe) == TRUE

\* Instance.append_diff_hash_dupe: whether the list of e gains the dupe
append_diff_hash_dupe(e, dupe) ==
  /\ dupe.remote
  /\ ~InSeq(dupe.uri, e.dupes)

\* CODAppender._handle_diff: the metadata after every dupe has been offered
\* to the instance it conflicts with
RECURSIVE handle_diff(_, _)
handle_diff(diffs, existing) ==
  IF diffs = <<>> THEN existing
  ELSE
    LET dupe == diffs[1]
        updated == [ i \in 1..Len(existing) |->
                      IF existing[i].uid = dupe.uid /\ append_diff_hash_dupe(existing[i], dupe)
                        THEN [existing[i] EXCEPT !.dupes = Append(@, dupe.uri)]
                        ELSE existing[i] ]
    IN  handle_diff(Tail(diffs), updated)

Member(inst) == [uid |-> inst.uid, crc |-> inst.crc, size |-> inst.size]

Members(instances) == [ i \in 1..Len(instances) |-> Member(instances[i]) ]

\* a packing that writes nothing to the tar
create_or_append_tar_unwritten(tar, instances) == tar

\* Instance.append_to_series_tar for the instances that tarfile can read:
\* the tar after they were added to it
create_or_append_tar(tar, instances) ==
  tar \o Members(SelectSeq(instances, LAMBDA inst : inst.readable))

\* a header without its SOP Instance UID
extract_metadata_without_uid(inst) == [SOPInstanceUID |-> 0]

\* Instance.extract_metadata: the header of the file as a JSON dict, of which
\* the model keeps tag 00080018, the SOP Instance UID
extract_metadata(inst) == [SOPInstanceUID |-> inst.uid]

\* CODAppender._handle_create_metadata: the instances added to the tar enter
\* the metadata with the byte offsets that append_to_series_tar recorded,
\* begin_offset + index of the preamble, and start + size
handle_create_metadata(existing, tar_before, added) ==
  LET tar_after == tar_before \o Members(added)
  IN  existing \o
      [ i \in 1..Len(added) |->
          [uid    |-> added[i].uid,
           crc    |-> added[i].crc,
           size   |-> added[i].size,
           start  |-> TarEnd(SubSeq(tar_after, 1, Len(tar_before) + i - 1)) + TAR_HEADER_BLOCKS,
           stop   |-> TarEnd(SubSeq(tar_after, 1, Len(tar_before) + i - 1)) + TAR_HEADER_BLOCKS
                      + added[i].size,
           dupes  |-> <<>>,
           metadata |-> extract_metadata(added[i]),
           cached |-> TRUE] ]

\* CODAppender._handle_create_tar: whether the stored tar is pulled first
pulls_tar(existing, has_lock) == Len(existing) > 0 /\ has_lock

\* CODAppender.append on the object of w: the fields of the object when the
\* call ends, the exception it raises (err) and the AppendResult it returns
append(w, instances, max_instance_size, max_series_size) ==
  LET existing == metadata[w].instances
      gate == assert_not_too_large(instances, max_instance_size, max_series_size, existing)
      deduped == dedupe(gate.instances, 1,
                        [kept |-> <<>>, same |-> <<>>, conflict |-> <<>>, errors |-> <<>>,
                         read |-> {}])
      owned == assert_instances_belong_to_cod_obj(deduped.kept, deduped.read)
      state_change == calculate_state_change(owned.instances, existing)
      unchanged == [err |-> "none", instances |-> existing,
                    metadata_synced |-> metadata_synced[w], tar_synced |-> tar_synced[w],
                    temp_dir |-> temp_dir[w],
                    tar_file |-> tar_file[w], index_file |-> index_file[w],
                    result |-> EmptyResult]
      \* _handle_same
      result_same == [new |-> <<>>,
                      same |-> Uris(deduped.same) \o Uris(state_change.same),
                      conflict |-> Uris(deduped.conflict),
                      errors |-> gate.errors \o deduped.errors \o owned.errors]
      \* _handle_diff
      after_diff == handle_diff(state_change.diff, existing)
      diffed == [unchanged EXCEPT
                   !.instances = after_diff,
                   !.metadata_synced = IF after_diff # existing THEN FALSE ELSE @,
                   !.result = [result_same EXCEPT !.conflict = @ \o Uris(state_change.diff)]]
      \* _handle_new
      pulled == pulls_tar(after_diff, has_locker(lock[w]))
      tar_before == IF pulled THEN tar_blob.body ELSE tar_file[w]
      added == SelectSeq(state_change.new, LAMBDA inst : inst.readable)
      failed == SelectSeq(state_change.new, LAMBDA inst : ~inst.readable)
      tar_after == create_or_append_tar(tar_before, state_change.new)
  IN  IF gate.raised
        THEN [unchanged EXCEPT !.err = "ValueError"]
      ELSE IF state_change.new = <<>> /\ state_change.diff = <<>>
        THEN [unchanged EXCEPT !.result = result_same]
      ELSE IF state_change.new = <<>>
        THEN diffed
      ELSE IF pulled /\ ~tar_blob.exists
        \* _force_fetch_tar: download_to_filename raises NotFound and removes
        \* the file it was writing to
        THEN [diffed EXCEPT !.err = "NotFound", !.temp_dir = TRUE, !.tar_file = <<>>,
                            !.result = EmptyResult]
      ELSE IF added = <<>>
        \* _create_or_append_tar: nothing could be added
        THEN [diffed EXCEPT !.err = "ValueError", !.temp_dir = TRUE, !.tar_file = tar_before,
                            !.tar_synced = IF pulled THEN TRUE ELSE @,
                            !.result = EmptyResult]
      ELSE [diffed EXCEPT
              !.temp_dir = TRUE,
              !.tar_file = tar_after,
              !.tar_synced = FALSE,
              !.index_file = Blob(create_sqlite_index(tar_after)),
              !.instances = handle_create_metadata(after_diff, tar_before, added),
              !.metadata_synced = FALSE,
              !.result = [diffed.result EXCEPT
                            !.new = Uris(added),
                            !.errors = @ \o [ i \in 1..Len(failed) |-> Error(failed[i], "OSError") ]]]

\* a gate that lets every call through
public_method_open(has_lock, dirty) == "none"

\* utils.public_method: the exception the gate raises before the method runs
public_method(has_lock, dirty) ==
  IF ~dirty /\ ~has_lock THEN "CleanOpOnUnlockedCODObjectError" ELSE "none"

\* the public methods that have a dirty parameter; public_method hands its
\* keyword arguments on to the method, so dirty=... to a method without the
\* parameter is a TypeError
takes_dirty(method) == method \in {"get_metadata", "append"}

\* what a call of the public method does before the body of the method:
\* the exception raised, "none" if the body runs.  dirty_kwarg is "absent"
\* if the caller did not write dirty=... at all; the gate reads
\* kwargs.get("dirty", False).
public_call(method, has_lock, dirty_kwarg) ==
  IF public_method(has_lock, dirty_kwarg = "True") # "none"
    THEN public_method(has_lock, dirty_kwarg = "True")
  ELSE IF dirty_kwarg # "absent" /\ ~takes_dirty(method) THEN "TypeError"
  ELSE "none"

\* CODObject.get_metadata called on the constructed object, whose metadata
\* the constructor has loaded
GetMetadata(w) ==
  /\ pc[w] = "held"
  /\ \E dirty_kwarg \in offered.dirties :
       Returned(w, public_call("get_metadata", has_locker(lock[w]), dirty_kwarg))
  /\ UNCHANGED <<store, env, objects, object, last_call>>

\* CODObject.append
AppendInstances(w) ==
  /\ pc[w] = "held"
  /\ \E dirty_kwarg \in offered.dirties :
       LET gate == public_call("append", has_locker(lock[w]), dirty_kwarg)
       IN  IF gate # "none"
             THEN /\ Returned(w, gate)
                  /\ UNCHANGED <<metadata, metadata_synced, tar_synced, temp_dir, tar_file,
                                 index_file, last_call>>
             ELSE \E instances \in Batches(offered.files, offered.batch) \cup offered.groups :
                    /\ append_instances' = Set(append_instances, w, Uris(instances))
                    /\ sync_uploads' = Set(sync_uploads, w, <<>>)
                    /\ \E out \in { append(w, instances, offered.max_instance_size,
                                           offered.max_series_size) } :
                         /\ Len(out.tar_file) <= MaxTarLen
                         /\ metadata' = Set(metadata, w, [loaded |-> TRUE, instances |-> out.instances])
                         /\ metadata_synced' = Set(metadata_synced, w, out.metadata_synced)
                         /\ tar_synced' = Set(tar_synced, w, out.tar_synced)
                         /\ temp_dir' = Set(temp_dir, w, out.temp_dir)
                         /\ tar_file' = Set(tar_file, w, out.tar_file)
                         /\ index_file' = Set(index_file, w, out.index_file)
                         /\ append_result' = Set(append_result, w, out.result)
                         /\ Returned(w, out.err)
  /\ UNCHANGED <<store, env, objects, lock, lock_generation>>

(* -------------------------------- sync -------------------------------- *)

\* os.path.getsize(tar_file_path) == EMPTY_TAR_SIZE: the tar has no member
tar_is_empty(members) == members = <<>>

\* a sync that uploads the tar without uploading the index before it
sync_first_tar_before_index(tar_is_synced, empty, has_index) ==
  IF ~tar_is_synced
    THEN IF empty THEN "return"
         ELSE IF ~has_index THEN "AssertionError"
         ELSE "sync_tar"
    ELSE "sync_metadata"

\* CODObject.sync, after the lock was verified: what sync does first.
\* "return" and "AssertionError" end the call, the others name the upload.
sync_first(tar_is_synced, empty, has_index) ==
  IF ~tar_is_synced
    THEN IF empty THEN "return"
         ELSE IF ~has_index THEN "AssertionError"
         ELSE "sync_index"
    ELSE "sync_metadata"

\* a sync that uploads the metadata right after the index
sync_after_index_metadata_first == "sync_metadata"

\* CODObject.sync, after the index was uploaded: what sync does next
sync_after_index == "sync_tar"

\* CODObject.sync, after the tar was uploaded: what sync does next
sync_after_tar(metadata_is_synced) ==
  IF ~metadata_is_synced THEN "sync_metadata" ELSE "return"

\* CODObject.sync: whether the call returns at once, before verifying the lock
nothing_to_sync(tar_is_synced, metadata_is_synced) ==
  tar_is_synced /\ metadata_is_synced

\* CODObject.sync up to the first request of verify
SyncStart(w) ==
  /\ pc[w] = "held"
  /\ \E dirty_kwarg \in offered.dirties :
       LET gate == public_call("sync", has_locker(lock[w]), dirty_kwarg)
       IN  IF gate # "none"
             THEN /\ Returned(w, gate)
                  /\ UNCHANGED last_call
             ELSE /\ append_instances' = Set(append_instances, w, <<>>)
                  /\ append_result' = Set(append_result, w, EmptyResult)
                  /\ sync_uploads' = Set(sync_uploads, w, <<>>)
                  /\ IF nothing_to_sync(tar_synced[w], metadata_synced[w])
                       THEN Returned(w, "none")
                       ELSE IF verify_exists(lock_blob) # "none"
                         THEN Returned(w, verify_exists(lock_blob))
                         ELSE Goto(w, "sync_reload")
  /\ UNCHANGED <<store, env, objects, object>>

\* sync: second request of verify, then the local checks before any upload;
\* tar_file_path makes the temp directory and an empty tar if there is none
SyncVerify(w) ==
  /\ pc[w] = "sync_reload"
  /\ LET e == verify(lock_blob, lock_generation[w])
         first == sync_first(tar_synced[w], tar_is_empty(tar_file[w]), index_file[w].exists)
     IN  /\ IF e # "none" THEN Returned(w, e)
            ELSE IF first = "return" THEN Returned(w, "none")
            ELSE IF first = "AssertionError" THEN Returned(w, "AssertionError")
            ELSE Goto(w, first)
         /\ temp_dir' = Set(temp_dir, w, temp_dir[w] \/ (e = "none" /\ ~tar_synced[w]))
  /\ UNCHANGED <<store, env, objects, lock, lock_generation, metadata, tar_synced,
                 metadata_synced, tar_file, index_file, last_call>>

\* sync: upload_and_count(index_blob, index_file_path); the upload may fail
SyncUploadIndex(w) ==
  /\ pc[w] = "sync_index"
  /\ \E ok \in BOOLEAN :
       IF ok
         THEN /\ index_blob' = Blob(index_file[w].body)
              /\ sync_uploads' = Set(sync_uploads, w, Append(sync_uploads[w], "index"))
              /\ Goto(w, sync_after_index)
         ELSE /\ Returned(w, "UploadError")
              /\ UNCHANGED <<index_blob, sync_uploads>>
  /\ UNCHANGED <<lock_blob, next_generation, metadata_blob, tar_blob, error_log, env, objects,
                 object, append_instances, append_result>>

\* sync: upload_and_count(tar_blob, tar_file_path), then _tar_synced = True
SyncUploadTar(w) ==
  /\ pc[w] = "sync_tar"
  /\ \E ok \in BOOLEAN :
       IF ok
         THEN /\ tar_blob' = Blob(tar_file[w])
              /\ tar_synced' = Set(tar_synced, w, TRUE)
              /\ sync_uploads' = Set(sync_uploads, w, Append(sync_uploads[w], "tar"))
              /\ IF sync_after_tar(metadata_synced[w]) = "return"
                   THEN Returned(w, "none")
                   ELSE Goto(w, sync_after_tar(metadata_synced[w]))
         ELSE /\ Returned(w, "UploadError")
              /\ UNCHANGED <<tar_blob, tar_synced, sync_uploads>>
  /\ UNCHANGED <<lock_blob, next_generation, metadata_blob, index_blob, error_log, env, objects,
                 lock, lock_generation, metadata, metadata_synced, temp_dir, tar_file,
                 index_file, append_instances, append_result>>

\* sync: _gzip_and_upload_metadata, then _metadata_synced = True
SyncUploadMetadata(w) ==
  /\ pc[w] = "sync_metadata"
  /\ \E ok \in BOOLEAN :
       IF ok
         THEN /\ metadata_blob' = Blob(to_gzipped_json(metadata[w].instances))
              /\ metadata_synced' = Set(metadata_synced, w, TRUE)
              /\ sync_uploads' = Set(sync_uploads, w, Append(sync_uploads[w], "metadata"))
              /\ Returned(w, "none")
         ELSE /\ Returned(w, "UploadError")
              /\ UNCHANGED <<metadata_blob, metadata_synced, sync_uploads>>
  /\ UNCHANGED <<lock_blob, next_generation, tar_blob, index_blob, error_log, env, objects,
                 lock, lock_generation, metadata, tar_synced, temp_dir, tar_file, index_file,
                 append_instances, append_result>>

(* ----------------------------- error log ------------------------------ *)

\* the messages a caller writes to the error log
Messages == {"failed"}

\* an upload_error_log that does not look for an error log
upload_error_log_unchecked(found) == "none"

\* CODObject.upload_error_log, after error_blob.exists(): the exception raised
upload_error_log(found) ==
  IF found THEN "ErrorLogExistsError" ELSE "none"

\* CODObject.upload_error_log up to its first request, error_blob.exists()
UploadErrorLogExists(w) ==
  /\ pc[w] = "held"
  /\ \E dirty_kwarg \in offered.dirties :
       LET gate == public_call("upload_error_log", has_locker(lock[w]), dirty_kwarg)
       IN  IF gate # "none" THEN Returned(w, gate)
           ELSE IF upload_error_log(error_log.exists) # "none"
             THEN Returned(w, upload_error_log(error_log.exists))
             ELSE Goto(w, "log_upload")
  /\ UNCHANGED <<store, env, objects, object, last_call>>

\* upload_error_log: error_blob.upload_from_string(message)
UploadErrorLogUpload(w) ==
  /\ pc[w] = "log_upload"
  /\ \E message \in Messages : error_log' = Blob(<<message>>)
  /\ Returned(w, "none")
  /\ UNCHANGED <<lock_blob, next_generation, metadata_blob, tar_blob, index_blob, env, objects,
                 object, last_call>>

(* ---------------------------- environment ----------------------------- *)

\* an operator clears the lock blob by hand
OperatorDeletesLock ==
  /\ lock_blob # 0
  /\ steals < MaxSteals
  /\ lock_blob' = 0
  /\ steals' = steals + 1
  /\ UNCHANGED <<next_generation, metadata_blob, tar_blob, index_blob, error_log, offered,
                 codec, init_args, serialized, aside, objects, pc, object, err, last_call>>

(* --------------------------- specifications --------------------------- *)

\* the blobs of a series to which the files were appended and synced: none
\* if there were no files
Stored(files) ==
  /\ metadata_blob = IF files = <<>> THEN NoBlob
                     ELSE Blob(to_gzipped_json(handle_create_metadata(<<>>, <<>>, files)))
  /\ tar_blob = IF files = <<>> THEN NoBlob ELSE Blob(create_or_append_tar(<<>>, files))
  /\ index_blob = IF files = <<>> THEN NoBlob
                  ELSE Blob(create_sqlite_index(create_or_append_tar(<<>>, files)))

Init == offered \in Scenarios /\ Start /\ Idle /\ Stored(offered.stored)

InitSteal == offered \in StealScenarios /\ Start /\ Idle /\ Stored(offered.stored)

InitApi == offered \in ApiScenarios /\ Start /\ Idle /\ Stored(offered.stored)

InitAppend == offered \in AppendScenarios /\ Start /\ Idle /\ Stored(offered.stored)

Next ==
  \E w \in Writers :
    \/ Construct(w)
    \/ AcquireExists(w)
    \/ AcquireReload(w)
    \/ AcquireFetchMetadata(w)
    \/ AcquireUpload(w)
    \/ AppendInstances(w)
    \/ SyncStart(w)
    \/ SyncVerify(w)
    \/ SyncUploadIndex(w)
    \/ SyncUploadTar(w)
    \/ SyncUploadMetadata(w)
    \/ ReleaseExists(w)
    \/ ReleaseReload(w)
    \/ ReleaseDelete(w)
    \/ ExitWithException(w)

\* writers only
Spec == Init /\ [][Next]_vars

NextSteal == Next \/ OperatorDeletesLock

\* writers, and an operator who clears locks
SpecSteal == InitSteal /\ [][NextSteal]_vars

NextApi ==
  \/ Next
  \/ \E w \in Writers :
       \/ InitDeleteErrorLog(w)
       \/ InitFetchMetadata(w)
       \/ GetMetadata(w)
       \/ UploadErrorLogExists(w)
       \/ UploadErrorLogUpload(w)

\* callers with and without a lock, who use every public method
SpecApi == InitApi /\ [][NextApi]_vars

\* the calls of the first caller, who closes every object without an
\* exception
NextAppend ==
  \/ Construct(1)
  \/ AcquireExists(1)
  \/ AcquireFetchMetadata(1)
  \/ AcquireUpload(1)
  \/ AppendInstances(1)
  \/ SyncStart(1)
  \/ SyncVerify(1)
  \/ SyncUploadIndex(1)
  \/ SyncUploadTar(1)
  \/ SyncUploadMetadata(1)
  \/ ReleaseExists(1)
  \/ ReleaseReload(1)
  \/ ReleaseDelete(1)

\* one caller, who appends lists of several instances
SpecAppend == InitAppend /\ [][NextAppend]_vars

TypeOK ==
  /\ lock_blob \in Nat
  /\ \A w \in Writers : tar_synced[w] \in BOOLEAN /\ metadata_synced[w] \in BOOLEAN

(* ------------------------------ properties ---------------------------- *)

\* where a caller is while its constructor acquires the lock
Acquiring == {"acq_exists", "acq_reload", "acq_fetch", "acq_upload"}

\* where a caller is while its sync call runs
Syncing == {"sync_reload", "sync_index", "sync_tar", "sync_metadata"}

\* the caller has a Series Object whose acquire succeeded
Holding(w) ==
  /\ pc[w] \notin Acquiring \cup {"none", "init_delete", "init_fetch"}
  /\ has_locker(lock[w])

\* C1: of the Series Objects that try to acquire the same lock, whatever the
\* order of their store requests, at most one holds it at a time: an acquire
\* that uploads to a free lock succeeds, no acquire succeeds while another
\* object holds the lock, and an acquire that fails leaves the lock blob as
\* it was and, the lock blob being there, raises LockAcquisitionError.
C1_OneAcquireSucceeds ==
  [][ \A w \in Writers :
        /\ (pc[w] = "acq_upload" /\ pc'[w] # pc[w] /\ lock_blob = 0)
              => (pc'[w] = "held" /\ lock_blob' = lock_generation'[w] /\ lock_blob' # 0)
        /\ (pc[w] \in Acquiring /\ pc'[w] = "held")
              => \A v \in Writers \ {w} : ~Holding(v)
        /\ (pc[w] \in Acquiring /\ pc'[w] = "none")
              => /\ lock_blob' = lock_blob
                 /\ lock_blob # 0 => err'[w] = "LockAcquisitionError"
    ]_vars

\* C1, its case: one Series Object holds the lock it created and the
\* constructor of the other has raised LockAcquisitionError
C1_Witness ==
  \E w, v \in Writers :
    /\ w # v
    /\ pc[w] = "held" /\ lock_blob = lock_generation[w] /\ lock_blob # 0
    /\ pc[v] = "none" /\ err[v] = "LockAcquisitionError"

\* C2: whenever acquire succeeds by creating the lock blob, the metadata the
\* writer has in memory is the stored metadata blob of that moment, and so
\* no later upload of metadata removes an instance the blob had.
C2_AcquiredMetadataIsCurrent ==
  [][ \A w \in Writers :
        /\ (pc[w] = "acq_upload" /\ pc'[w] = "held")
              => to_gzipped_json(metadata'[w].instances) = metadata_blob'.body
        /\ (pc[w] = "sync_metadata")
              => Keys(metadata_blob.body) \subseteq Keys(metadata_blob'.body)
    ]_vars

\* the lock the object of w acquired is gone or is another generation
Lost(w) == lock_generation[w] # 0 /\ lock_blob # lock_generation[w]

LockErrors == {"LockVerificationError", "LockAcquisitionError"}

\* C3: once the lock blob was deleted or replaced by another generation
\* while held, the call the writer makes next, be it append, sync or the
\* release at scope exit, raises a lock error, or (sync, release) has found
\* a lock blob and goes on to reload it.
C3_NextOperationDetects ==
  [][ \A w \in Writers : Lost(w) =>
        /\ AppendInstances(w) => err'[w] \in LockErrors
        /\ SyncStart(w) => (err'[w] \in LockErrors \/ pc'[w] = "sync_reload")
        /\ ReleaseExists(w) => (err'[w] \in LockErrors \/ pc'[w] = "rel_reload")
    ]_vars

\* C3 as amended: once the lock blob was deleted or replaced by another
\* generation while held, the next sync that has a dirty flag and the
\* release at scope exit fail in verify, with LockVerificationError, or
\* with the store's NotFound if the blob that exists() saw is gone at
\* reload(), and they change nothing in the store.
C3_SyncOrReleaseDetects ==
  [][ \A w \in Writers : Lost(w) =>
        /\ (SyncStart(w) /\ ~nothing_to_sync(tar_synced[w], metadata_synced[w]))
              => ((pc'[w] = "held" /\ err'[w] = "LockVerificationError") \/ pc'[w] = "sync_reload")
        /\ ReleaseExists(w)
              => ((pc'[w] = "none" /\ err'[w] = "LockVerificationError") \/ pc'[w] = "rel_reload")
        /\ SyncVerify(w)
              => (pc'[w] = "held" /\ err'[w] \in {"LockVerificationError", "NotFound"})
        /\ ReleaseReload(w)
              => (pc'[w] = "none" /\ err'[w] \in {"LockVerificationError", "NotFound"})
        /\ (SyncStart(w) \/ SyncVerify(w) \/ ReleaseExists(w) \/ ReleaseReload(w))
              => UNCHANGED store
    ]_vars

\* C3, its case: the lock of a writer was replaced by the lock of another
\* writer, who holds it, and the sync of the first has raised
\* LockVerificationError
C3_Witness ==
  \E w, v \in Writers :
    /\ w # v
    /\ pc[w] = "held" /\ Lost(w) /\ err[w] = "LockVerificationError"
    /\ pc[v] = "held" /\ lock_blob = lock_generation[v]

\* where a caller is while its sync call uploads
Uploading == {"sync_index", "sync_tar", "sync_metadata"}

\* a sync call of w ends with exception e, having uploaded nothing and
\* leaving both flags as they were
Refused(w, e) ==
  /\ pc'[w] = "held"
  /\ err'[w] = e
  /\ sync_uploads'[w] = <<>>
  /\ UNCHANGED <<metadata_blob, tar_blob, index_blob>>
  /\ tar_synced'[w] = tar_synced[w]
  /\ metadata_synced'[w] = metadata_synced[w]

UploadOrders ==
  { <<>>, <<"index">>, <<"index", "tar">>, <<"index", "tar", "metadata">>, <<"metadata">> }

\* C5: within every sync call the uploads come in the order index, tar,
\* metadata: the tar upload starts when the index, and nothing else, has
\* been uploaded; the metadata upload starts when index and tar have been
\* uploaded, or when nothing has and the tar was not dirty.
C5_UploadOrder ==
  \A w \in Writers :
    /\ sync_uploads[w] \in UploadOrders
    /\ pc[w] = "sync_index" => sync_uploads[w] = <<>>
    /\ pc[w] = "sync_tar" => sync_uploads[w] = <<"index">>
    /\ pc[w] = "sync_metadata" => sync_uploads[w] \in {<<>>, <<"index", "tar">>}
    /\ (sync_uploads[w] = <<"metadata">> \/ (pc[w] = "sync_metadata" /\ sync_uploads[w] = <<>>))
          => tar_synced[w]

\* C5, its case: a sync call has uploaded index, tar and metadata
C5_Witness ==
  \E w \in Writers :
    /\ pc[w] = "held" /\ err[w] = "none"
    /\ sync_uploads[w] = <<"index", "tar", "metadata">>

\* the stored tar has the instance of record d of the stored metadata at the
\* byte offsets d records, with the CRC32C d records
StoredInstanceInTar(d) ==
  /\ tar_blob.exists
  /\ \E j \in 1..Len(tar_blob.body) :
        ScanTar(tar_blob.body)[j] = [uid |-> d.uid, crc |-> d.crc, start |-> d.start, stop |-> d.stop]

\* C6: whatever the writer that holds the lock has appended and synced, every
\* instance the stored metadata references is in the stored tar at the
\* recorded offsets with the recorded CRC32C.  (Stated for the runs in
\* which tarfile can read every file, and for the first Series Object, while
\* none of its calls is under way.)
C6_StoredMetadataInStoredTar ==
  ((\A f \in offered.files : f.readable) /\ objects = 1 /\ pc[1] = "held")
    => \A i \in 1..Len(metadata_blob.body) : StoredInstanceInTar(metadata_blob.body[i])

\* C7: in every state of the store in which the tar blob exists, the index
\* blob exists.
C7_TarImpliesIndex == tar_blob.exists => index_blob.exists

\* C7, its case: on a series that had no blobs a sync has uploaded index and
\* tar and has then failed to upload the metadata
C7_Witness ==
  /\ offered.stored = <<>>
  /\ tar_blob.exists /\ index_blob.exists /\ ~metadata_blob.exists
  /\ \E w \in Writers :
        pc[w] = "held" /\ err[w] = "UploadError" /\ sync_uploads[w] = <<"index", "tar">>

\* the index has one entry for each member of the tar, in the order of the
\* tar, under the name of the member and with the offset of its content
Describes(index, members) ==
  /\ Len(index) = Len(members)
  /\ \A j \in 1..Len(members) :
        /\ index[j].uid = ScanTar(members)[j].uid
        /\ index[j].start = ScanTar(members)[j].start

\* C8: in every state of the store the stored index describes exactly the
\* members of the stored tar, and lists no member the stored tar lacks.
C8_IndexDescribesStoredTar ==
  /\ tar_blob.exists => index_blob.exists
  /\ index_blob.exists => Describes(index_blob.body, tar_blob.body)

\* C8 as amended: the index a sync uploads describes exactly the members of
\* the tar it uploads next, so the stored index describes exactly the
\* members of the stored tar once the sync has uploaded the tar.  Between
\* the two uploads, and after a sync that failed between them, the stored
\* index describes the local tar of that sync and not the stored tar.
C8_IndexDescribesUploadedTar ==
  \A w \in Writers :
    /\ pc[w] = "sync_tar"
          => (index_blob.exists /\ Describes(index_blob.body, tar_file[w]))
    /\ InSeq("tar", sync_uploads[w])
          => (index_blob.exists /\ tar_blob.exists /\ Describes(index_blob.body, tar_blob.body))

\* C8, its case: a sync has uploaded the index and not yet the tar, and the
\* stored index lists a member that the stored tar lacks
C8_Witness ==
  \E w \in Writers :
    /\ pc[w] = "sync_tar"
    /\ \E k \in 1..Len(index_blob.body) :
          \A j \in 1..Len(tar_blob.body) : ScanTar(tar_blob.body)[j].uid # index_blob.body[k].uid

\* C9: whenever a sync call that found the metadata flag dirty returns
\* normally, the stored metadata is the in-memory metadata and the metadata
\* flag is clean.
C9_SyncStoresDirtyMetadata ==
  [][ \A w \in Writers :
        (pc[w] \in Syncing /\ ~metadata_synced[w] /\ pc'[w] = "held" /\ err'[w] = "none")
          => /\ metadata_synced'[w]
             /\ metadata_blob' = Blob(to_gzipped_json(metadata'[w].instances))
    ]_vars

\* C10: whenever a sync call returns normally and leaves both flags clean,
\* the metadata blob and the tar blob are the serialization of the in-memory
\* metadata and the local tar.
C10_CleanMeansStored ==
  [][ \A w \in Writers :
        /\ SyncStart(w) \/ pc[w] \in Syncing
        /\ pc'[w] = "held" /\ err'[w] = "none"
        /\ tar_synced'[w] /\ metadata_synced'[w]
        => /\ metadata_blob' = Blob(to_gzipped_json(metadata'[w].instances))
           /\ tar_blob' = Blob(tar_file'[w])
    ]_vars

\* the blobs that hold the series
series_blobs == <<metadata_blob, tar_blob, index_blob>>

\* the instance at place i of the list is one that append has to add: it is
\* in the series, within the size cap, readable, under a UID that neither
\* the metadata nor an earlier place of the list has
Addable(w, uris, i) ==
  LET inst == Input(uris[i])
  IN  /\ inst.series /\ inst.readable
      /\ ~(inst.size > offered.max_instance_size)
      /\ inst.uid \notin Keys(metadata[w].instances)
      /\ \A j \in 1..(i - 1) : Input(uris[j]).uid # inst.uid

\* C11: append never writes to the store: whatever it returns or raises, the
\* tar, index and metadata blobs are what they were; an instance it has to
\* add enters the result's new, the in-memory metadata and the local tar,
\* and both flags are dirty afterwards.
C11_AppendLeavesStore ==
  [][ \A w \in Writers :
        (/\ pc[w] = "held" /\ pc'[w] = "held"
         /\ \A v \in Writers \ {w} : pc'[v] = pc[v] /\ append_result'[v] = append_result[v]
         /\ AppendInstances(w)) =>
          /\ UNCHANGED series_blobs
          /\ UNCHANGED <<lock_blob, error_log>>
          /\ err'[w] = "none" =>
               \E uris \in { append_instances'[w] } :
                 \A i \in 1..Len(uris) : Addable(w, uris, i) =>
                   \E inst \in { Input(uris[i]) } :
                     /\ InSeq(inst.uri, append_result'[w].new)
                     /\ inst.uid \in Keys(metadata'[w].instances)
                     /\ \E k \in 1..Len(tar_file'[w]) : tar_file'[w][k].uid = inst.uid
                     /\ ~tar_synced'[w] /\ ~metadata_synced'[w]
    ]_vars

\* C11, its case: on a series with a stored tar an append has added an
\* instance, both flags are dirty and the blobs do not have the instance
C11_Witness ==
  \E w \in Writers :
    /\ pc[w] = "held" /\ err[w] = "none"
    /\ append_result[w].new # <<>>
    /\ ~tar_synced[w] /\ ~metadata_synced[w]
    /\ tar_blob.exists /\ metadata_blob.exists
    /\ \A i \in 1..Len(append_result[w].new) :
         /\ Input(append_result[w].new[i]).uid \notin Keys(metadata_blob.body)
         /\ \A k \in 1..Len(tar_blob.body) :
              tar_blob.body[k].uid # Input(append_result[w].new[i]).uid

\* C12: leaving the scope of a lock-holding Series Object. Without an
\* exception the release passes its verify and deletes the lock blob: no
\* lock blob is there afterwards and the conditional upload of another
\* acquire is accepted. With an exception the lock blob stays, with the
\* generation the object had acquired, and the caller gets the exception.
C12_ExitReleasesUnlessException ==
  [][ \A w \in Writers :
        /\ (ReleaseExists(w) /\ has_locker(lock[w])) => pc'[w] = "rel_reload"
        /\ ReleaseReload(w) => pc'[w] = "rel_delete"
        /\ ReleaseDelete(w) =>
             /\ lock_blob' = 0 /\ if_generation_match_0(lock_blob')
             /\ pc'[w] = "none" /\ err'[w] = "none"
        /\ (ExitWithException(w) /\ has_locker(lock[w])) =>
             /\ lock_blob # 0 /\ lock_blob = lock_generation[w]
             /\ lock_blob' = lock_blob
             /\ pc'[w] = "none" /\ err'[w] = "Exception"
    ]_vars

\* C12, its case: one object was released at its scope's end and the other
\* caller, who acquired the lock after that, left its scope with an
\* exception: its lock blob is there
C12_Witness ==
  \E w, v \in Writers :
    /\ w # v /\ objects = 2
    /\ pc[w] = "none" /\ err[w] = "none"
    /\ pc[v] = "none" /\ err[v] = "Exception"
    /\ lock_blob # 0

\* C13: once a caller has left the scope of its Series Object, with or
\* without an exception, with or without a lock, the temp directory of that
\* object is not on disk.
C13_NoTempDirAfterExit ==
  \A w \in Writers : pc[w] = "none" => ~temp_dir[w]

\* C14: while the series has an error.log, a construction either is one with
\* override_errors, which goes on to delete the log, or raises
\* ErrorLogExistsError and leaves every blob, the lock blob included, as it
\* was; without override_errors the constructor's check can only raise; and
\* the error.log goes away in no other step than the delete request of a
\* constructor with override_errors.
C14_ErrorLogQuarantines ==
  [][ /\ \A w \in Writers : (Construct(w) /\ error_log.exists) =>
           /\ init_error_log(error_log.exists, FALSE) = "ErrorLogExistsError"
           /\ \/ pc'[w] = "init_delete"
              \/ /\ pc'[w] = "none" /\ err'[w] = "ErrorLogExistsError"
                 /\ UNCHANGED store
      /\ (error_log.exists /\ ~error_log'.exists) =>
           \E w \in Writers : InitDeleteErrorLog(w) /\ pc[w] = "init_delete"
    ]_vars

\* C14, its case: a construction has failed on the error.log, which is
\* still there, and has left no lock blob
C14_Witness ==
  \E w \in Writers :
    /\ pc[w] = "none" /\ err[w] = "ErrorLogExistsError"
    /\ error_log.exists /\ lock_blob = 0

\* C15: upload_error_log of a lock-holding object, called as the method is
\* declared (without a dirty keyword): with no error.log it goes on to the
\* upload, which creates the error.log with the message and never replaces
\* one; with an error.log it raises ErrorLogExistsError and the log stays as
\* it is.  Once the log is uploaded the constructor's check without
\* override_errors raises.
C15_UploadErrorLog ==
  [][ \A w \in Writers :
        /\ (UploadErrorLogExists(w) /\ has_locker(lock[w]) /\ err'[w] # "TypeError") =>
             /\ UNCHANGED store
             /\ IF error_log.exists
                  THEN pc'[w] = "held" /\ err'[w] = "ErrorLogExistsError"
                  ELSE pc'[w] = "log_upload"
        /\ UploadErrorLogUpload(w) =>
             /\ ~error_log.exists
             /\ has_locker(lock[w])
             /\ \E message \in Messages : error_log' = Blob(<<message>>)
             /\ pc'[w] = "held" /\ err'[w] = "none"
             /\ init_error_log(error_log'.exists, FALSE) = "ErrorLogExistsError"
        /\ (Construct(w) /\ error_log.exists /\ pc'[w] # "init_delete") =>
             pc'[w] = "none" /\ err'[w] = "ErrorLogExistsError"
    ]_vars

\* C15, its case: the object has uploaded an error.log and its second
\* upload_error_log has raised; the log is there
C15_Witness ==
  \E w \in Writers :
    /\ pc[w] = "held" /\ has_locker(lock[w])
    /\ err[w] = "ErrorLogExistsError"
    /\ error_log.exists /\ error_log.body \in {<<m>> : m \in Messages}

\* the public operations of a Series Object
PublicMethods == {"get_metadata", "append", "sync", "upload_error_log"}

\* the step is one caller w takes out of "held", where every call begins,
\* and that ends where the first step of a call ends
CallBegins(w) ==
  /\ pc[w] = "held"
  /\ pc'[w] \in {"held", "sync_reload", "log_upload"}
  /\ \A v \in Writers \ {w} : pc'[v] = pc[v] /\ err'[v] = err[v]

\* the exceptions of a call that did not reach the body of the method
GateErrors == {"CleanOpOnUnlockedCODObjectError", "TypeError"}

\* caller w takes the first step of a call of the public method; of append
\* only the calls that did not reach the body are looked at
Calls(w, method) ==
  CASE method = "get_metadata" -> GetMetadata(w)
    [] method = "append" -> err'[w] \in GateErrors /\ AppendInstances(w)
    [] method = "sync" -> SyncStart(w)
    [] method = "upload_error_log" -> UploadErrorLogExists(w)

\* a call that was turned away before the body of the method left the
\* object and the store as they were
TurnedAway(w) == pc'[w] = "held" /\ UNCHANGED <<store, object>>

\* caller w comes to have an object at rest: its constructor or one of its
\* calls returns
ComesToRest(w) == pc[w] # "held" /\ pc'[w] = "held"

\* C16, first half: a public operation called without dirty=True (no dirty
\* keyword, or dirty=False) on an object without a lock raises
\* CleanOpOnUnlockedCODObjectError before the body of the method.
C16_CleanOpGated(has_lock) ==
  \A method \in PublicMethods : \A dirty_kwarg \in {"absent", "False"} :
    ~has_lock =>
      public_call(method, has_lock, dirty_kwarg) = "CleanOpOnUnlockedCODObjectError"

\* a call that ended in one of the exceptions raised before the body has
\* left metadata, flags and store unchanged
C16_RefusedCallChangesNothing ==
  \A w \in Writers : CallBegins(w) =>
    \A method \in PublicMethods :
      (err'[w] \in GateErrors /\ Calls(w, method)) => TurnedAway(w)

\* C16 as amended: the gate holds for all four operations; with dirty=True
\* on a locked object get_metadata and append, which have a dirty parameter,
\* run; sync and upload_error_log have none: a call with a dirty keyword
\* passes the gate and fails with TypeError before the body, so that on an
\* object without a lock they never run at all.
C16_GateAndDirtyParameter ==
  [][ \A w \in Writers :
        /\ ComesToRest(w) =>
             /\ C16_CleanOpGated(has_locker(lock'[w]))
             /\ \A method \in PublicMethods :
                  has_locker(lock'[w]) =>
                    public_call(method, has_locker(lock'[w]), "True")
                      = IF takes_dirty(method) THEN "none" ELSE "TypeError"
        /\ CallBegins(w) =>
             \A method \in PublicMethods : Calls(w, method) =>
               /\ err'[w] \in GateErrors => TurnedAway(w)
               /\ IF has_locker(lock[w])
                    THEN /\ err'[w] \in GateErrors =>
                              (err'[w] = "TypeError" /\ ~takes_dirty(method))
                         /\ method = "get_metadata" => err'[w] = "none"
                    ELSE ~takes_dirty(method) => err'[w] \in GateErrors
    ]_vars

\* C16, its case: an object without a lock had a clean call turned away by
\* the gate, and a locked object had a sync with a dirty keyword fail
C16_Witness ==
  \E w, v \in Writers :
    /\ pc[w] = "held" /\ ~has_locker(lock[w])
    /\ err[w] = "CleanOpOnUnlockedCODObjectError"
    /\ pc[v] = "held" /\ has_locker(lock[v])
    /\ err[v] = "TypeError"

\* C16 as stated: the gate holds for all four operations, and each of them
\* runs when called with dirty=True on a locked object.
C16_DirtyRunsOnLocked ==
  [][ /\ C16_RefusedCallChangesNothing
      /\ \A w \in Writers : ComesToRest(w) =>
           /\ C16_CleanOpGated(has_locker(lock'[w]))
           /\ \A method \in PublicMethods :
                has_locker(lock'[w]) =>
                  public_call(method, has_locker(lock'[w]), "True") = "none"
    ]_vars

\* C17: an object constructed with lock=False persists nothing.  It never
\* comes to one of the requests of acquire, sync or upload_error_log; every
\* step that changes the tar, index or metadata blob is an upload of a sync
\* of an object constructed with lock=True, and every step that creates a
\* lock blob is the upload of the acquire of such an object.
C17_UnlockedNeverPersists ==
  [][ /\ \A w \in Writers :
           (pc'[w] \in Acquiring \cup Syncing \cup {"log_upload"}) => lock'[w]
      /\ series_blobs' # series_blobs =>
           \E w \in Writers : lock[w] /\ pc[w] \in Uploading /\ pc'[w] # pc[w]
      /\ (lock_blob' # lock_blob /\ lock_blob' # 0) =>
           \E w \in Writers : lock[w] /\ pc[w] = "acq_upload" /\ pc'[w] = "held"
    ]_vars

\* C17, its case: an object constructed with lock=False has added an
\* instance to its metadata with a dirty append and had a clean call turned
\* away; no lock blob is there and the stored metadata has not got the
\* instance
C17_Witness ==
  \E w \in Writers :
    /\ pc[w] = "held" /\ ~lock[w]
    /\ append_result[w].new # <<>>
    /\ ~tar_synced[w] /\ ~metadata_synced[w]
    /\ err[w] = "CleanOpOnUnlockedCODObjectError"
    /\ lock_blob = 0
    /\ \A i \in 1..Len(append_result[w].new) :
         Input(append_result[w].new[i]).uid \notin Keys(metadata_blob.body)

\* how often x is in the list
Occurrences(x, seq) == Cardinality({ i \in 1..Len(seq) : seq[i] = x })

\* how often the instance of the URI is in the four lists of the result
Listed(uri, result) ==
  Occurrences(uri, result.new) + Occurrences(uri, result.same)
    + Occurrences(uri, result.conflict)
    + Occurrences(uri, [ i \in 1..Len(result.errors) |-> result.errors[i].uri ])

\* the caller's last call was an append that returned
AppendReturned(w) ==
  pc[w] = "held" /\ err[w] = "none" /\ append_instances[w] # <<>>

\* C18: when append has returned, every input instance is in exactly one of
\* the lists new, same, conflict and errors of the result: each is listed as
\* often as it was given, so that the lengths of the four lists add up to
\* the length of the input.
C18_ResultPartitionsInput ==
  \A w \in Writers : AppendReturned(w) =>
    /\ \A i \in 1..Len(append_instances[w]) :
         Listed(append_instances[w][i], append_result[w])
           = Occurrences(append_instances[w][i], append_instances[w])
    /\ Len(append_result[w].new) + Len(append_result[w].same)
         + Len(append_result[w].conflict) + Len(append_result[w].errors)
         = Len(append_instances[w])

\* every instance of the list has been appended to the series before: the
\* metadata of the object has its UID with the hash of the instance
AppendedBefore(w, uris) ==
  \A i \in 1..Len(uris) :
    /\ Input(uris[i]).uid \in Keys(metadata[w].instances)
    /\ Entry(metadata[w].instances, Input(uris[i]).uid).crc = Input(uris[i]).crc

\* C19: append is idempotent.  An append of a list whose instances have all
\* been appended before returns, with every input in same and nothing in
\* new, conflict or errors; it leaves the local tar, the in-memory metadata
\* and both synced flags as they were, so that a sync that had nothing to
\* upload before it has nothing to upload after it.
C19_SecondAppendIsSame ==
  [][ \A w \in Writers :
        (AppendInstances(w) /\ AppendedBefore(w, append_instances'[w])) =>
          /\ err'[w] = "none"
          /\ append_result'[w].new = <<>>
          /\ append_result'[w].conflict = <<>>
          /\ append_result'[w].errors = <<>>
          /\ \A i \in 1..Len(append_instances'[w]) :
               Occurrences(append_instances'[w][i], append_result'[w].same)
                 = Occurrences(append_instances'[w][i], append_instances'[w])
          /\ UNCHANGED <<tar_file, index_file, metadata, tar_synced, metadata_synced>>
          /\ nothing_to_sync(tar_synced'[w], metadata_synced'[w])
               = nothing_to_sync(tar_synced[w], metadata_synced[w])
    ]_vars

\* the instance at place i of the list gets to the classification: it is
\* within the size cap, no instance within the cap stands before it in the
\* list under its UID, and it belongs to the series
Survives(uris, i) ==
  LET inst == Input(uris[i])
  IN  /\ ~(inst.size > offered.max_instance_size)
      /\ \A j \in 1..(i - 1) :
           ~(Input(uris[j]).size > offered.max_instance_size) => Input(uris[j]).uid # inst.uid
      /\ inst.series

\* the class the instance has against the metadata of the object
StateClass(w, inst) ==
  IF inst.uid \notin Keys(metadata[w].instances) THEN "NEW"
  ELSE IF Entry(metadata[w].instances, inst.uid).crc = inst.crc THEN "SAME"
  ELSE "DIFF"

\* C20: an instance that gets to the classification is NEW iff its UID is
\* not a key of the metadata, SAME iff it is a key with the instance's hash,
\* DIFF iff it is a key with another hash: when append returns, a NEW
\* instance that could be read is in the result's new, a SAME one in same, a
\* DIFF one in conflict, and in no other of these three lists.  A SAME
\* instance leaves its metadata entry as it was, and an append in which no
\* instance is NEW or DIFF leaves tar, index, metadata and flags unchanged.
C20_StateClassification ==
  [][ \A w \in Writers : (AppendInstances(w) /\ err'[w] = "none") =>
        \E uris \in { append_instances'[w] } : \E result \in { append_result'[w] } :
          /\ \A i \in 1..Len(uris) : Survives(uris, i) =>
               \E inst \in { Input(uris[i]) } : \E class \in { StateClass(w, inst) } :
                 /\ (class = "NEW" /\ inst.readable) => InSeq(inst.uri, result.new)
                 /\ class = "SAME" =>
                      /\ InSeq(inst.uri, result.same)
                      /\ Entry(metadata'[w].instances, inst.uid)
                           = Entry(metadata[w].instances, inst.uid)
                 /\ class = "DIFF" => InSeq(inst.uri, result.conflict)
                 /\ Occurrences(inst.uri, uris) = 1 =>
                      /\ InSeq(inst.uri, result.new) => class = "NEW"
                      /\ InSeq(inst.uri, result.same) => class = "SAME"
                      /\ InSeq(inst.uri, result.conflict) => class = "DIFF"
          /\ \/ UNCHANGED <<tar_file, index_file, metadata, tar_synced, metadata_synced>>
             \/ \E i \in 1..Len(uris) :
                  Survives(uris, i) /\ StateClass(w, Input(uris[i])) # "SAME"
    ]_vars

\* C20, its case: the object's metadata has an instance that an earlier
\* append met with another hash, and its last append was given that instance
\* again and one the series did not have: the one is in same, the other in
\* new
C20_Witness ==
  \E w \in Writers :
    /\ AppendReturned(w)
    /\ append_result[w].same # <<>> /\ append_result[w].new # <<>>
    /\ \A i \in 1..Len(append_result[w].same) :
         /\ Input(append_result[w].same[i]).uid \in Keys(metadata_blob.body)
         /\ Entry(metadata[w].instances, Input(append_result[w].same[i]).uid).dupes # <<>>

\* no instance of the survivors of the list is NEW
NothingNew(w, uris) ==
  \A i \in 1..Len(uris) : Survives(uris, i) => StateClass(w, Input(uris[i])) # "NEW"

\* the diff-hash-dupe list that the rule of the metadata gives the entry
\* when it is offered the dupe: the URI is added if the dupe is remote and
\* the URI is not listed yet (the instance UIDs are those of the lookup)
DupesAfter(entry, dupe) ==
  IF dupe.remote /\ ~InSeq(dupe.uri, entry.dupes)
    THEN Append(entry.dupes, dupe.uri)
    ELSE entry.dupes

\* C21: when append returns, an instance classified DIFF is in the result's
\* conflict, and the diff-hash-dupe list of the instance it conflicts with
\* has gained its URI exactly if the instance is remote and the URI was not
\* listed; no list has a URI twice.  An append without NEW instances leaves
\* the tar, the index and the tar flag untouched, and its metadata flag is
\* dirty afterwards exactly if it was dirty before or a list has changed.
C21_DiffHandling ==
  [][ \A w \in Writers : (AppendInstances(w) /\ err'[w] = "none") =>
        \E uris \in { append_instances'[w] } :
          /\ \A i \in 1..Len(uris) : Survives(uris, i) =>
               \E inst \in { Input(uris[i]) } :
                 StateClass(w, inst) = "DIFF" =>
                   /\ InSeq(inst.uri, append_result'[w].conflict)
                   /\ Entry(metadata'[w].instances, inst.uid).dupes
                        = DupesAfter(Entry(metadata[w].instances, inst.uid), inst)
          /\ \A k \in 1..Len(metadata'[w].instances) :
               \A m, n \in 1..Len(metadata'[w].instances[k].dupes) :
                 metadata'[w].instances[k].dupes[m] = metadata'[w].instances[k].dupes[n]
                   => m = n
          /\ NothingNew(w, uris) =>
               /\ UNCHANGED <<tar_file, index_file, tar_synced, temp_dir>>
               /\ metadata_synced'[w]
                    = (metadata_synced[w] /\ metadata'[w] = metadata[w])
    ]_vars

\* C21, its case: on an object whose tar and metadata were synced, an append
\* has met a remote instance with the UID of a stored one and another hash:
\* it is in conflict and in the dupe list of the stored instance, the
\* metadata flag is dirty and the tar flag is still clean
C21_Witness ==
  \E w \in Writers :
    /\ AppendReturned(w)
    /\ append_result[w].new = <<>> /\ append_result[w].conflict # <<>>
    /\ tar_synced[w] /\ ~metadata_synced[w]
    /\ \A i \in 1..Len(append_result[w].conflict) :
         InSeq(append_result[w].conflict[i],
               Entry(metadata[w].instances, Input(append_result[w].conflict[i]).uid).dupes)

\* the instance is larger than the cap append was given for one instance
Overlarge(inst) == inst.size > offered.max_instance_size

\* C22: when append returns, every input larger than max_instance_size is
\* in errors as overlarge and in no other list of the result, and its
\* dropping does not keep the other inputs from being added (C11 states the
\* adding).  When every input is overlarge append does return, with an empty
\* new, and the local tar and index, the temp directory, the metadata and
\* the flags are what they were.
C22_InstanceSizeGate ==
  [][ \A w \in Writers : AppendInstances(w) =>
        \E uris \in { append_instances'[w] } : \E result \in { append_result'[w] } :
          /\ err'[w] = "none" =>
               \A i \in 1..Len(uris) : \E inst \in { Input(uris[i]) } :
                 IF Overlarge(inst)
                   THEN /\ InSeq(Error(inst, "Overlarge"), result.errors)
                        /\ ~InSeq(inst.uri, result.new)
                        /\ ~InSeq(inst.uri, result.same)
                        /\ ~InSeq(inst.uri, result.conflict)
                   ELSE Addable(w, uris, i) => InSeq(inst.uri, result.new)
          /\ (\A i \in 1..Len(uris) : Overlarge(Input(uris[i]))) =>
               /\ err'[w] = "none"
               /\ result.new = <<>> /\ Len(result.errors) = Len(uris)
               /\ UNCHANGED <<tar_file, index_file, temp_dir, metadata, tar_synced,
                              metadata_synced, store>>
    ]_vars

\* C22, its case: an append of an overlarge instance and one within the cap
\* has returned with the first in errors and the second in new
C22_Witness ==
  \E w \in Writers :
    /\ AppendReturned(w)
    /\ \E i, j \in 1..Len(append_instances[w]) :
         /\ Overlarge(Input(append_instances[w][i]))
         /\ InSeq(Error(Input(append_instances[w][i]), "Overlarge"), append_result[w].errors)
         /\ ~Overlarge(Input(append_instances[w][j]))
         /\ InSeq(append_instances[w][j], append_result[w].new)

\* the size the gate holds against max_series_size: the inputs within the
\* cap for one instance, and the instances the series has
GroupingSize(w, uris) ==
  SumSizes(SelectSeq([ i \in 1..Len(uris) |-> Input(uris[i]) ],
                     LAMBDA inst : ~Overlarge(inst)))
    + SumSizes(metadata[w].instances)

\* C23: an append whose accepted inputs together with the instances of the
\* series exceed max_series_size raises ValueError and has done nothing: the
\* local tar and index, the temp directory, the in-memory metadata, both
\* flags and the store are what they were, and no result is handed out.
C23_SeriesSizeGate ==
  [][ \A w \in Writers :
        (/\ pc[w] = "held" /\ pc'[w] = "held"
         /\ AppendInstances(w)
         /\ GroupingSize(w, append_instances'[w]) > offered.max_series_size) =>
          /\ err'[w] = "ValueError"
          /\ append_result'[w] = EmptyResult
          /\ UNCHANGED <<tar_file, index_file, temp_dir, metadata, tar_synced,
                         metadata_synced, store>>
    ]_vars

\* C23, its case: an object that has added instances, with its local tar
\* and dirty flags, was given a list that takes the series over the cap:
\* append has raised
C23_Witness ==
  \E w \in Writers :
    /\ pc[w] = "held" /\ err[w] = "ValueError"
    /\ append_instances[w] # <<>>
    /\ GroupingSize(w, append_instances[w]) > offered.max_series_size
    /\ metadata[w].instances # <<>> /\ tar_file[w] # <<>>
    /\ ~tar_synced[w] /\ ~metadata_synced[w]

\* the instance at place k of the list is the one that the dedupe keeps
\* under its UID: it is within the size cap and no instance within the cap
\* stands before it in the list under that UID
EarliestOfUid(uris, k) ==
  /\ ~Overlarge(Input(uris[k]))
  /\ \A j \in 1..(k - 1) :
       ~Overlarge(Input(uris[j])) => Input(uris[j]).uid # Input(uris[k]).uid

\* the instance at place i of the list is dropped by the dedupe for the one
\* at place k
DroppedFor(uris, i, k) ==
  /\ k < i
  /\ EarliestOfUid(uris, k)
  /\ ~Overlarge(Input(uris[i]))
  /\ Input(uris[i]).uid = Input(uris[k]).uid

\* what the dedupe of the inputs reports: a dropped instance with the hash
\* of the kept one is in same, one with another hash is in conflict, and no
\* two instances of new have one UID
DedupeReports(uris, result) ==
  /\ \A i, k \in 1..Len(uris) : DroppedFor(uris, i, k) =>
       IF Input(uris[i]).crc = Input(uris[k]).crc
         THEN InSeq(uris[i], result.same)
         ELSE InSeq(uris[i], result.conflict)
  /\ \A m, n \in 1..Len(result.new) :
       Input(result.new[m]).uid = Input(result.new[n]).uid => m = n

\* C24: of the inputs of a batch that share an instance UID only the
\* earliest is kept for the classification; each later one with the same
\* hash is reported in same, each later one with another hash in conflict,
\* and when a dropped conflict is remote its URI is on the diff-hash-dupe
\* list of the kept instance, which is the list of the kept instance's
\* metadata entry when the append inserted it.
C24_InputDedupe ==
  [][ \A w \in Writers : (AppendInstances(w) /\ err'[w] = "none") =>
        \E uris \in { append_instances'[w] } : \E result \in { append_result'[w] } :
          /\ DedupeReports(uris, result)
          /\ \A i, k \in 1..Len(uris) :
               ( /\ DroppedFor(uris, i, k)
                 /\ Input(uris[i]).crc # Input(uris[k]).crc
                 /\ Input(uris[i]).remote
                 /\ InSeq(uris[k], result.new) ) =>
                 InSeq(uris[i], Entry(metadata'[w].instances, Input(uris[k]).uid).dupes)
    ]_vars

\* the reports of C24 without the diff-hash-dupe list
C24_DedupeReportsOnly ==
  [][ \A w \in Writers : (AppendInstances(w) /\ err'[w] = "none") =>
        DedupeReports(append_instances'[w], append_result'[w])
    ]_vars

\* the UID is of an instance whose study and series UIDs are not those of
\* the Series Object
Foreign(uid) == \E inst \in Inputs : inst.uid = uid /\ ~inst.series

\* the URIs of the errors of the result
ErrorUris(result) == [ i \in 1..Len(result.errors) |-> result.errors[i].uri ]

\* no instance in a tar or in a metadata, local or stored, is foreign to the
\* series
AllBelong ==
  /\ \A k \in 1..Len(metadata_blob.body) : ~Foreign(metadata_blob.body[k].uid)
  /\ \A k \in 1..Len(tar_blob.body) : ~Foreign(tar_blob.body[k].uid)
  /\ \A w \in Writers :
       /\ \A k \in 1..Len(metadata[w].instances) : ~Foreign(metadata[w].instances[k].uid)
       /\ \A k \in 1..Len(tar_file[w]) : ~Foreign(tar_file[w][k].uid)

\* C25 as stated: every input whose study and series UIDs differ from the
\* Series Object's is reported in errors, each as often as it was given.
C25_EveryForeignInputInErrors ==
  \A w \in Writers : AppendReturned(w) =>
    \A i \in 1..Len(append_instances[w]) : ~Input(append_instances[w][i]).series =>
      Occurrences(append_instances[w][i], ErrorUris(append_result[w]))
        = Occurrences(append_instances[w][i], append_instances[w])

\* C25: append never packs or inserts into the metadata an instance whose
\* study and series UIDs differ from the Series Object's: such an input is
\* never in the result's new, and when it gets to the ownership check (it is
\* within the size cap and the earliest of its UID in the batch) it is
\* reported in errors with the AssertionError; a later one of that UID is
\* reported by the dedupe in same or conflict.  In every reachable state
\* all instances in the tars and the metadata belong to the series.
C25_Ownership ==
  /\ []AllBelong
  /\ [][ \A w \in Writers : (AppendInstances(w) /\ err'[w] = "none") =>
           \E uris \in { append_instances'[w] } : \E result \in { append_result'[w] } :
             \A i \in 1..Len(uris) : \E inst \in { Input(uris[i]) } : ~inst.series =>
               /\ ~InSeq(inst.uri, result.new)
               /\ IF EarliestOfUid(uris, i)
                    THEN InSeq(Error(inst, "AssertionError"), result.errors)
                    ELSE InSeq(inst.uri, result.same) \/ InSeq(inst.uri, result.conflict)
       ]_vars

\* C25, its case: the last append of the object was given a foreign instance
\* and one of the series; the foreign one is in errors, the other is in new
\* and in the metadata
C25_Witness ==
  \E w \in Writers :
    /\ AppendReturned(w)
    /\ append_result[w].new # <<>>
    /\ \E i \in 1..Len(append_instances[w]) :
         /\ ~Input(append_instances[w][i]).series
         /\ InSeq(Error(Input(append_instances[w][i]), "AssertionError"), append_result[w].errors)
    /\ \A i \in 1..Len(append_result[w].new) :
         Input(append_result[w].new[i]).uid \in Keys(metadata[w].instances)

\* the places of the list whose instance gets to the classification and is
\* NEW against the metadata of the object
NewPlaces(w, uris) ==
  { i \in 1..Len(uris) : Survives(uris, i) /\ StateClass(w, Input(uris[i])) = "NEW" }

\* the list has NEW instances and none of them can be packed, and the size
\* gate lets the list through
NoneCouldBePacked(w, uris) ==
  /\ GroupingSize(w, uris) <= offered.max_series_size
  /\ NewPlaces(w, uris) # {}
  /\ \A i \in NewPlaces(w, uris) : ~Input(uris[i]).readable

\* the last n members of the tar
LastMembers(tar, n) == SubSeq(tar, Len(tar) - n + 1, Len(tar))

\* C26 as stated, its last part: if no NEW instance could be packed, append
\* raises and the metadata and the metadata flag are unchanged.
C26_FailedPackingLeavesMetadata ==
  [][ \A w \in Writers :
        (AppendInstances(w) /\ NoneCouldBePacked(w, append_instances'[w])) =>
          /\ err'[w] # "none"
          /\ metadata'[w] = metadata[w]
          /\ metadata_synced'[w] = metadata_synced[w]
    ]_vars

\* C26: the metadata follows the tar.  When an append with NEW inputs
\* returns, the instances it has inserted into the metadata are those of
\* the result's new, and they are the members it has written to the end of
\* the local tar, in that order; a NEW instance whose packing failed is in
\* errors and is not in the metadata.  If no NEW instance could be packed,
\* append raises, no instance is inserted, and the metadata and its flag are
\* changed only by the DIFF instances of the batch: the entries differ at
\* most in their diff-hash-dupe lists and the flag is dirty afterwards
\* exactly if it was dirty before or a list has changed.
C26_MetadataFollowsTar ==
  [][ \A w \in Writers : AppendInstances(w) =>
        \E uris \in { append_instances'[w] } : \E result \in { append_result'[w] } :
          /\ (err'[w] = "none" /\ NewPlaces(w, uris) # {}) =>
               /\ Keys(metadata'[w].instances) \ Keys(metadata[w].instances)
                    = { Input(result.new[n]).uid : n \in 1..Len(result.new) }
               /\ Len(tar_file'[w]) >= Len(result.new)
               /\ LastMembers(tar_file'[w], Len(result.new))
                    = [ n \in 1..Len(result.new) |-> Member(Input(result.new[n])) ]
               /\ \A i \in NewPlaces(w, uris) : ~Input(uris[i]).readable =>
                    /\ InSeq(uris[i], ErrorUris(result))
                    /\ ~InSeq(uris[i], result.new)
                    /\ Input(uris[i]).uid \notin Keys(metadata'[w].instances)
          /\ NoneCouldBePacked(w, uris) =>
               /\ err'[w] # "none"
               /\ result = EmptyResult
               /\ Len(metadata'[w].instances) = Len(metadata[w].instances)
               /\ \A k \in 1..Len(metadata[w].instances) :
                    [metadata'[w].instances[k] EXCEPT !.dupes = <<>>]
                      = [metadata[w].instances[k] EXCEPT !.dupes = <<>>]
               /\ metadata_synced'[w] = (metadata_synced[w] /\ metadata'[w] = metadata[w])
    ]_vars

\* C26, its case: the last append of the object was given an instance that
\* could be packed and one that could not: the one is in new, in the tar
\* and in the metadata, the other is in errors and not in the metadata
C26_Witness ==
  \E w \in Writers :
    /\ AppendReturned(w)
    /\ append_result[w].new # <<>>
    /\ \A n \in 1..Len(append_result[w].new) :
         /\ Input(append_result[w].new[n]).uid \in Keys(metadata[w].instances)
         /\ InSeq(Member(Input(append_result[w].new[n])), tar_file[w])
    /\ \E n \in 1..Len(append_result[w].errors) :
         /\ append_result[w].errors[n].error = "OSError"
         /\ Input(append_result[w].errors[n].uri).uid \notin Keys(metadata[w].instances)

MetadataInstance(uid, cached) ==
  [uid |-> uid, crc |-> 10 * uid + 1, size |-> 1,
   start |-> TAR_HEADER_BLOCKS, stop |-> TAR_HEADER_BLOCKS + 1,
   dupes |-> IF uid = 1 THEN <<"a2">> ELSE <<>>, metadata |-> [SOPInstanceUID |-> uid],
   cached |-> cached]

MetadataInstances ==
  { MetadataInstance(1, TRUE), MetadataInstance(1, FALSE), MetadataInstance(2, FALSE) }

\* the custom tags a caller adds with _add_metadata_field, which takes any
\* name and any value
CustomTags ==
  { Pair("thumbnail", Str(7)),
    Pair("thumbnail", Value("list", <<1, 2>>)),
    Pair("thumbnail", Value("tuple", <<1, 2>>)),
    Pair("note", Str(8)),
    Pair("cod", Value("list", <<1>>)),
    Pair("study_uid", Str(9)),
    Pair("deid_study_uid", Str(9)) }

\* the lists of keys that a dict can have: no key twice
DistinctKeys(keys) ==
  \A i, j \in 1..Len(keys) : keys[i] = keys[j] => i = j

SeriesMetadatas ==
  { [study_uid |-> Str(1), series_uid |-> Str(2), hashed_uids |-> hashed,
     instances |-> instances, metadata_fields |-> fields, is_sorted |-> sorted] :
      hashed \in BOOLEAN, sorted \in BOOLEAN,
      instances \in { s \in SeqsUpTo(MetadataInstances, MaxMetadataInstances) :
                        DistinctKeys([i \in 1..Len(s) |-> s[i].uid]) },
      fields \in { s \in SeqsUpTo(CustomTags, MaxTags) :
                     DistinctKeys([i \in 1..Len(s) |-> s[i].key]) } }

\* any Series Metadata, about to be serialized
InitCodec ==
  /\ offered = Scenario(<<>>, {}, DEFAULT_MAX_INSTANCE_SIZE, DEFAULT_MAX_SERIES_SIZE)
  /\ Start
  /\ Stored(<<>>)
  /\ \E m \in SeriesMetadatas : codec = [NoCodec EXCEPT !.stage = "object", !.m = m]
  /\ init_args = [w \in Writers |-> DefaultArgs]
  /\ serialized = NoState
  /\ Quiet

NotCodec ==
  <<lock_blob, next_generation, metadata_blob, tar_blob, index_blob, error_log,
    steals, offered, init_args, serialized, aside, objects, pc, object, err, last_call>>

\* m.to_bytes()
ToBytes ==
  /\ codec.stage = "object"
  /\ codec' = [codec EXCEPT !.stage = "bytes", !.bytes = to_bytes(codec.m)]
  /\ UNCHANGED NotCodec

\* SeriesMetadata.from_bytes(bytes)
FromBytes ==
  /\ codec.stage = "bytes"
  /\ codec' = [codec EXCEPT !.stage = "loaded", !.loaded = from_bytes(codec.bytes)]
  /\ UNCHANGED NotCodec

\* to_bytes() of the Series Metadata that was loaded
ToBytesAgain ==
  /\ codec.stage = "loaded"
  /\ codec.loaded.raised = "none"
  /\ codec' = [codec EXCEPT !.stage = "saved", !.saved = to_bytes(codec.loaded.m)]
  /\ UNCHANGED NotCodec

NextCodec == ToBytes \/ FromBytes \/ ToBytesAgain

\* a Series Metadata is written to bytes, read back and written again
SpecCodec == InitCodec /\ [][NextCodec]_vars

ReservedKeys == {"study_uid", "series_uid", "deid_study_uid", "deid_series_uid", "cod"}

\* no custom tag of m has the name of a key that to_dict writes itself
PlainTags(m) ==
  \A i \in 1..Len(m.metadata_fields) : m.metadata_fields[i].key \notin ReservedKeys

\* m as it is in its serialized form: the instances without what they have
\* cached, tuples as lists, and no is_sorted
AsSerialized(m) ==
  [m EXCEPT !.instances = from_blob(to_gzipped_json(m.instances)),
            !.metadata_fields = json_loads(json_dumps(m.metadata_fields)),
            !.is_sorted = FALSE]

\* C30 as stated: from_bytes(to_bytes(m)) equals m for every Series
\* Metadata m.
C30_RoundTripEquals ==
  codec.stage = "loaded" =>
    /\ codec.loaded.raised = "none"
    /\ codec.loaded.m = codec.m

\* C30: the serialization of a Series Metadata round-trips in what it
\* writes.  For every m whose custom tags have none of the names
\* study_uid, series_uid, deid_study_uid, deid_series_uid and cod:
\* from_bytes(to_bytes(m)) does not raise and is m as serialized, with the
\* UIDs, the flag, the instances in their order with their written fields
\* and the custom tags in their order (a tuple comes back as a list; what
\* the instances have cached and is_sorted are not written); the key names
\* of the bytes are deid_study_uid and deid_series_uid iff hashed_uids is
\* true.  For every m, a load that does not raise recovers the flag from the
\* presence of deid_study_uid, keeps every other key than the UID keys and
\* cod as a custom tag, and writes the same bytes again.
C30_RoundTripAsSerialized ==
  /\ (codec.stage = "bytes" /\ PlainTags(codec.m)) =>
         /\ HasKey(codec.bytes, "deid_study_uid") = codec.m.hashed_uids
         /\ HasKey(codec.bytes, "deid_series_uid") = codec.m.hashed_uids
         /\ HasKey(codec.bytes, "study_uid") = ~codec.m.hashed_uids
         /\ HasKey(codec.bytes, "series_uid") = ~codec.m.hashed_uids
  /\ codec.stage \in {"loaded", "saved"} =>
       /\ PlainTags(codec.m) =>
            /\ codec.loaded.raised = "none"
            /\ codec.loaded.m = AsSerialized(codec.m)
            /\ [ i \in 1..Len(codec.loaded.m.instances) |-> codec.loaded.m.instances[i].uid ]
                 = [ i \in 1..Len(codec.m.instances) |-> codec.m.instances[i].uid ]
       /\ codec.loaded.raised = "none" =>
            /\ codec.loaded.m.hashed_uids = HasKey(codec.bytes, "deid_study_uid")
            /\ \A i \in 1..Len(codec.bytes) :
                 codec.bytes[i].key \notin ReservedKeys =>
                   HasKey(codec.loaded.m.metadata_fields, codec.bytes[i].key)
  /\ codec.stage = "saved" => codec.saved = codec.bytes

\* C30, its case: a hashed Series Metadata with two instances, one of them
\* just appended, and a custom tag was written and read back
C30_Witness ==
  /\ codec.stage = "saved"
  /\ codec.m.hashed_uids
  /\ Len(codec.m.instances) = 2
  /\ \E i \in 1..2 : codec.m.instances[i].cached
  /\ codec.m.metadata_fields # <<>> /\ PlainTags(codec.m)
  /\ codec.loaded.m.hashed_uids
  /\ Len(codec.loaded.m.instances) = 2

(* ------------------- serialization of the Series Object --------------- *)

\* CODObject._metadata as a SeriesMetadata: the metadata of the series of
\* the callers, which has plain UIDs and no custom tags
series_metadata(loaded) ==
  [study_uid |-> Str(1), series_uid |-> Str(2), hashed_uids |-> FALSE,
   instances |-> loaded.instances, metadata_fields |-> <<>>, is_sorted |-> FALSE]

\* CODObject.serialize: the copy of self.__dict__ without client and
\* _locker, with _metadata as a dict.  lock_generation is the attribute that
\* __init__ set from its argument; temp_dir is the directory object, with
\* which the files in the directory go along.  _metadata.to_dict() of an
\* object whose metadata is None is an AttributeError.
serialize(w) ==
  [taken |-> TRUE,
   lock_generation |-> init_args[w].lock_generation,
   temp_dir |-> temp_dir[w],
   tar_file |-> tar_file[w],
   index_file |-> index_file[w],
   tar_synced |-> tar_synced[w],
   metadata_synced |-> metadata_synced[w],
   metadata_dict |-> to_dict(series_metadata(metadata[w]))]

Serialize(w) ==
  /\ pc[w] = "held"
  /\ IF ~metadata[w].loaded
       THEN /\ Returned(w, "AttributeError")
            /\ UNCHANGED serialized
       ELSE /\ Returned(w, "none")
            /\ serialized' = serialize(w)
  /\ UNCHANGED <<store, steals, offered, codec, init_args, aside, objects, object, last_call>>

\* CODObject.deserialize: lock is True if the dict has a lock_generation;
\* the constructor is called with the fields of the dict, and the metadata
\* of the dict is set on the object when the constructor has returned
deserialize_lock(serialized_obj) == serialized_obj.lock_generation # 0

Deserialize(w) ==
  /\ pc[w] = "none"
  /\ serialized.taken
  /\ objects < MaxObjects
  /\ \A v \in Writers : v < w => pc[v] # "none"
  /\ objects' = objects + 1
  /\ \E override_errors \in offered.overrides :
       LET then == init_error_log(error_log.exists, override_errors)
       IN  IF then = "ErrorLogExistsError"
             THEN /\ Gone(w, then)
                  /\ temp_dir' = Set(temp_dir, w, serialized.temp_dir)
             ELSE /\ Goto(w, IF then = "proceed"
                               THEN init_proceed(deserialize_lock(serialized))
                               ELSE then)
                  /\ lock' = Set(lock, w, deserialize_lock(serialized))
                  /\ temp_dir' = Set(temp_dir, w, serialized.temp_dir)
                  /\ tar_file' = Set(tar_file, w, serialized.tar_file)
                  /\ index_file' = Set(index_file, w, serialized.index_file)
                  /\ UNCHANGED <<lock_generation, metadata, tar_synced, metadata_synced,
                                 last_call>>
  /\ init_args' = Set(init_args, w,
                      [lock_generation |-> serialized.lock_generation,
                       temp_dir |-> serialized.temp_dir,
                       tar_synced |-> serialized.tar_synced,
                       metadata_synced |-> serialized.metadata_synced,
                       given |-> TRUE,
                       metadata_dict |-> serialized.metadata_dict])
  /\ UNCHANGED <<store, steals, offered, codec, serialized, aside>>

\* writers who hand a Series Object on: one serializes it, one makes an
\* object of the dict
HandoffScenarios ==
  { Scenario(<<>>, {"b"}, DEFAULT_MAX_INSTANCE_SIZE, DEFAULT_MAX_SERIES_SIZE) }

InitHandoff == offered \in HandoffScenarios /\ Start /\ Idle /\ Stored(offered.stored)

NextHandoff ==
  \/ Next
  \/ \E w \in Writers :
       \/ InitFetchMetadata(w)
       \/ Serialize(w)
       \/ Deserialize(w)

SpecHandoff == InitHandoff /\ [][NextHandoff]_vars

\* C28: a Series Object serialized while it holds the lock and made again
\* with deserialize still holds that lock: the dict of a lock holder
\* carries the lock generation its Locker remembers; the object made of a
\* dict with a lock generation has a Locker that remembers that generation
\* when its making is over, and its making has neither created nor removed
\* a lock blob.
C28_HandOverKeepsLock ==
  [][ \A w \in Writers :
        /\ (Serialize(w) /\ has_locker(lock[w]) /\ err'[w] = "none") =>
             serialized'.lock_generation = lock_generation[w]
        /\ (Deserialize(w) /\ serialized.lock_generation # 0) =>
             (err'[w] = "none" /\ has_locker(lock'[w]))
        /\ ((AcquireReload(w) \/ AcquireUpload(w)) /\ init_args[w].lock_generation # 0) =>
             /\ pc'[w] = "held"
             /\ lock_generation'[w] = init_args[w].lock_generation
             /\ UNCHANGED <<lock_blob, next_generation>>
    ]_vars

\* the public fields of the dict in a round trip: an object that was made
\* of a dict and is serialized at once gives a dict with the lock_generation
\* and the temp_dir of the first
C28_PublicFieldsRoundTrip ==
  [][ \A w \in Writers :
        (Serialize(w) /\ err'[w] = "none" /\ init_args[w].given
           /\ temp_dir[w] = init_args[w].temp_dir) =>
          /\ serialized'.lock_generation = init_args[w].lock_generation
          /\ serialized'.temp_dir = init_args[w].temp_dir
    ]_vars

\* an object made by deserialize of the dict of a lock holder has no lock:
\* the lock blob of the holder is still there
C28_ReconstitutedWithoutLock ==
  \E w \in Writers :
    /\ pc[w] = "held" /\ init_args[w].given
    /\ ~has_locker(lock[w])
    /\ lock_blob # 0
    /\ \A v \in Writers : v # w => pc[v] = "none"

(* ------------------------- create_if_missing -------------------------- *)

\* callers who construct with create_if_missing=False, or with True, with
\* and without a lock, on a series that has no blobs yet
CreateScenarios ==
  { [Scenario(<<>>, {"b"}, DEFAULT_MAX_INSTANCE_SIZE, DEFAULT_MAX_SERIES_SIZE)
       EXCEPT !.locks = BOOLEAN, !.creates = {create_if_missing}] :
      create_if_missing \in BOOLEAN }

InitCreate == offered \in CreateScenarios /\ Start /\ Idle /\ Stored(offered.stored)

NextCreate ==
  \/ Next
  \/ \E w \in Writers : InitFetchMetadata(w)

SpecCreate == InitCreate /\ [][NextCreate]_vars

\* the constructor of w fetches the metadata, in get_metadata or in acquire
FetchesMetadata(w) == InitFetchMetadata(w) \/ AcquireFetchMetadata(w)

\* C29: a constructor with create_if_missing=False that finds no metadata
\* blob raises CODObjectNotFoundError, with lock=False and with lock=True,
\* and leaves no lock blob behind; with create_if_missing=True it goes on
\* with an empty metadata.
C29_MissingSeriesIsNotCreated ==
  [][ \A w \in Writers : (FetchesMetadata(w) /\ ~metadata_blob.exists) =>
        IF offered.creates = {FALSE}
          THEN /\ pc'[w] = "none"
               /\ err'[w] = "CODObjectNotFoundError"
               /\ lock_blob' = lock_blob
          ELSE /\ err'[w] = "none"
               /\ metadata'[w] = [loaded |-> TRUE, instances |-> <<>>]
    ]_vars

\* the lock=False half of C29, and the create_if_missing=True half
C29_UnlockedOrCreating ==
  [][ \A w \in Writers :
        /\ (InitFetchMetadata(w) /\ ~metadata_blob.exists /\ offered.creates = {FALSE}) =>
             /\ pc'[w] = "none"
             /\ err'[w] = "CODObjectNotFoundError"
             /\ UNCHANGED store
        /\ (FetchesMetadata(w) /\ ~metadata_blob.exists /\ offered.creates = {TRUE}) =>
             /\ err'[w] = "none"
             /\ metadata'[w] = [loaded |-> TRUE, instances |-> <<>>]
    ]_vars

\* a caller who constructed with lock=True and create_if_missing=False on a
\* series without a metadata blob has an object, and the lock blob is there
C29_LockedObjectOfMissingSeries ==
  \E w \in Writers :
    /\ offered.creates = {FALSE}
    /\ ~metadata_blob.exists
    /\ pc[w] = "held" /\ has_locker(lock[w])
    /\ lock_blob = lock_generation[w] /\ lock_blob # 0
    /\ metadata[w].instances = <<>>

(* ------------------------------- hints -------------------------------- *)

\* the runs of a single caller whose instances come with wrong hints: a4
\* with a hint of another hash, c2 with a hint of another size
HintScenarios ==
  { [Scenario(<<>>, {"a", "a4"}, DEFAULT_MAX_INSTANCE_SIZE, DEFAULT_MAX_SERIES_SIZE)
       EXCEPT !.batch = MaxAppendBatch],
    [Scenario(<<>>, {"b", "c2"}, DEFAULT_MAX_INSTANCE_SIZE, DEFAULT_MAX_SERIES_SIZE)
       EXCEPT !.batch = MaxAppendBatch] }

InitHints == offered \in HintScenarios /\ Start /\ Idle /\ Stored(offered.stored)

\* one caller, who appends instances with wrong hints
SpecHints == InitHints /\ [][NextAppend]_vars

\* the file is a member of the local tar of w, or an instance of its metadata
Packed(w, inst) ==
  \/ \E i \in 1..Len(tar_file[w]) : tar_file[w][i].crc = inst.crc
  \/ \E i \in 1..Len(metadata[w].instances) : metadata[w].instances[i].crc = inst.crc

\* C31: the getters that trust hints answer with the hint that is set, the
\* first read of the file raises unless every set hint equals what the file
\* holds, and so no instance with a wrong hint is ever a member of the tar
\* or an instance of the metadata.
C31_WrongHintNeverPacked ==
  \A w \in Writers : \A inst \in offered.files :
    /\ inst.hinted.size # 0 => size(inst, TRUE) = inst.hinted.size
    /\ inst.hinted.crc32c # 0 => crc32c(inst, TRUE) = inst.hinted.crc32c
    /\ inst.hinted.instance_uid # 0 => instance_uid(inst, TRUE) = inst.hinted.instance_uid
    /\ (validate(inst) = "none") <=>
         /\ inst.hinted.size \in {0, inst.size}
         /\ inst.hinted.crc32c \in {0, inst.crc}
         /\ inst.hinted.instance_uid \in {0, inst.uid}
    /\ validate(inst) # "none" => ~Packed(w, inst)

\* an instance with a wrong hint is reported as new only by an append whose
\* list has, after it, another instance of the same hinted instance UID, and
\* that one is reported in errors
C31_PackedOnlyBeforeARepetition ==
  [][ \A inst \in offered.files :
        (/\ AppendInstances(1)
         /\ validate(inst) # "none"
         /\ InSeq(inst.uri, append_result'[1].new)) =>
          \E uris \in {append_instances'[1]} : \E i, k \in 1..Len(uris) :
            /\ i < k
            /\ uris[i] = inst.uri
            /\ instance_uid(Input(uris[k]), TRUE) = instance_uid(inst, TRUE)
            /\ InSeq(Error(Input(uris[k]), "AssertionError"), append_result'[1].errors)
    ]_vars

\* an append of a list without two instances of one hinted instance UID
\* reports every instance with a wrong hint in errors and none as new
C31_WrongHintAloneIsAnError ==
  [][ \E uris \in {append_instances'[1]} :
        (/\ AppendInstances(1)
         /\ err'[1] = "none"
         /\ \A i, k \in 1..Len(uris) :
              instance_uid(Input(uris[i]), TRUE) = instance_uid(Input(uris[k]), TRUE) => i = k) =>
          \A i \in 1..Len(uris) :
            validate(Input(uris[i])) # "none" =>
              /\ InSeq(Error(Input(uris[i]), "AssertionError"), append_result'[1].errors)
              /\ ~InSeq(uris[i], append_result'[1].new)
    ]_vars

\* the instance with the wrong hash hint was packed and synced
C31_WrongHintStored ==
  /\ metadata_blob.exists
  /\ \E i \in 1..Len(metadata_blob.body) : metadata_blob.body[i].crc = Input("a4").crc
  /\ \E i \in 1..Len(tar_blob.body) : tar_blob.body[i].crc = Input("a4").crc

(* ------------------------------ dicomweb ------------------------------ *)

Digit == {"0", "1", "2", "3", "4", "5", "8"}

\* is_valid_uid: re.match of ^[0-9]+(\.[0-9]+)*$, numbers separated by
\* single dots
is_valid_uid(uid) ==
  /\ uid # <<>>
  /\ \A i \in 1..Len(uid) : uid[i] \in Digit \cup {"."}
  /\ uid[1] \in Digit
  /\ uid[Len(uid)] \in Digit
  /\ \A i \in 1..(Len(uid) - 1) : ~(uid[i] = "." /\ uid[i + 1] = ".")

\* whether "/<pattern>/" occurs in the URI: the slash before the first
\* segment is the last one of the scheme
in_uri(segments, pattern) ==
  \E i \in 1..(Len(segments) - 1) : segments[i] = <<pattern>>

\* _extract_from_uri: everything after the first "/<pattern>/" and before
\* the next slash, None if the pattern is not found
extract_from_uri(segments, pattern) ==
  IF ~in_uri(segments, pattern) THEN None
  ELSE LET start == CHOOSE i \in 1..(Len(segments) - 1) :
                      /\ segments[i] = <<pattern>>
                      /\ \A j \in 1..(i - 1) : segments[j] # <<pattern>>
       IN  Some(segments[start + 1])

\* int(f) for every f of frames_str.split(","): whether each is a number
frames_are_int(frames_str) ==
  /\ \A i \in 1..Len(frames_str) : frames_str[i] \in Digit \cup {","}
  /\ frames_str[1] # ","
  /\ frames_str[Len(frames_str)] # ","
  /\ \A i \in 1..(Len(frames_str) - 1) : ~(frames_str[i] = "," /\ frames_str[i + 1] = ",")

\* DicomwebRequest.from_request, with from_uri and __post_init__: the
\* exception raised and the DicomwebRequest made
from_request(text) ==
  LET uri == text.segments
      study_uid    == extract_from_uri(uri, "studies")
      series_uid   == extract_from_uri(uri, "series")
      instance_uid_str == extract_from_uri(uri, "instances")
      frames_str   == extract_from_uri(uri, "frames")
      frames == IF Truthy(frames_str) THEN frames_str.text ELSE <<>>
      datastore_uri ==
        SubSeq(uri, 1, (CHOOSE i \in 1..Len(uri) :
                          /\ uri[i] = <<"studies">>
                          /\ \A j \in 1..(i - 1) : uri[j] # <<"studies">>) - 1)
      raised ==
        CASE text.verb # "GET" -> "AssertionError"
          [] text.scheme # "gs://" -> "AssertionError"
          [] \E i \in 1..Len(uri) : \E j \in 1..Len(uri[i]) : uri[i][j] = "?"
               -> "AssertionError"
          [] ~in_uri(uri, "studies") -> "AssertionError"
          [] Truthy(frames_str) /\ ~frames_are_int(frames_str.text) -> "ValueError"
          [] frames = <<>> /\ uri[Len(uri)] # <<"metadata">> -> "AssertionError"
          [] ~is_valid_uid(study_uid.text) -> "AssertionError"
          [] Truthy(series_uid) /\ ~is_valid_uid(series_uid.text) -> "AssertionError"
          [] Truthy(instance_uid_str) /\ ~is_valid_uid(instance_uid_str.text) -> "AssertionError"
          [] OTHER -> "none"
  IN  [raised |-> raised,
       request |-> IF raised # "none" THEN NoParsed
                   ELSE DicomwebRequest(datastore_uri, study_uid, series_uid,
                                        instance_uid_str, frames)]

\* DicomwebRequest.handle: the level of the request
handle(parsed) ==
  IF parsed.frames # <<>> THEN "frame"
  ELSE IF Truthy(parsed.instance_uid) THEN "instance"
  ELSE IF Truthy(parsed.series_uid) THEN "series"
  ELSE "study"

\* CODObject._validate_uids
validate_uids(study_uid, series_uid) ==
  IF study_uid.none \/ series_uid.none THEN "TypeError"
  ELSE IF Len(study_uid.text) >= 10 /\ Len(series_uid.text) >= 10 THEN "none"
  ELSE "AssertionError"

\* the UIDs of the series that the store holds, and of a series it does not
LongUid(last) == <<"1", ".", "2", ".", "8", "4", "0", ".", "1", ".", last>>

STUDY_UID == LongUid("1")

SERIES_UID == LongUid("2")

OTHER_SERIES_UID == LongUid("3")

\* the instance UID of the files: the key of the instance in the metadata
InstanceUid(uid) == << <<"1", "2", "3", "4", "5">>[uid] >>

\* whether the request addresses the series that the store holds
addresses_series(parsed) ==
  /\ parsed.datastore_uri = << <<"bucket">> >>
  /\ parsed.study_uid = Some(STUDY_UID)
  /\ parsed.series_uid = Some(SERIES_UID)

\* a request string arrives and DicomwebRequest.from_request parses it
ReceiveRequest ==
  /\ request.stage = "idle"
  /\ \E text \in offered.requests :
       LET made == from_request(text)
       IN  request' = [request EXCEPT !.stage = IF made.raised # "none" THEN "rejected"
                                                ELSE "parsed",
                                      !.text = text,
                                      !.parsed = made.request,
                                      !.error = made.raised]
  /\ UNCHANGED <<store, steals, offered, codec, init_args, serialized, deletion, pointer,
                 objects, pc, object, err, last_call>>

\* DicomwebRequest.handle up to the first request to the store: frame and
\* study level requests are not implemented, an instance or series level
\* request constructs the Series Object with lock=False, whose constructor
\* validates the UIDs and asks whether the error log exists
HandleRequest ==
  /\ request.stage = "parsed"
  /\ LET level == handle(request.parsed)
         invalid == validate_uids(request.parsed.study_uid, request.parsed.series_uid)
         then == init_error_log(addresses_series(request.parsed) /\ error_log.exists, FALSE)
     IN  IF level \in {"frame", "study"}
           THEN request' = [request EXCEPT !.stage = "rejected",
                                           !.error = "NotImplementedError"]
         ELSE IF invalid # "none"
           THEN request' = [request EXCEPT !.stage = "rejected", !.error = invalid]
         ELSE IF then # "proceed"
           THEN request' = [request EXCEPT !.stage = "rejected", !.error = then,
                                           !.opened = TRUE]
         ELSE request' = [request EXCEPT !.stage = "init_fetch", !.opened = TRUE]
  /\ UNCHANGED <<store, steals, offered, codec, init_args, serialized, deletion, pointer,
                 objects, pc, object, err, last_call>>

\* the constructor's get_metadata(create_if_missing=False, dirty=True)
\* fetches the metadata blob; _handle_instance_level_request and
\* _handle_series_level_request then read the metadata of the object
HandleGetMetadata ==
  /\ request.stage = "init_fetch"
  /\ LET blob == IF addresses_series(request.parsed) THEN metadata_blob ELSE NoBlob
         raised == get_metadata_raises(NoMetadata, blob, FALSE)
         instances == to_gzipped_json(get_metadata(NoMetadata, blob).instances)
         found == SelectSeq(instances,
                            LAMBDA d : InstanceUid(d.uid) = request.parsed.instance_uid.text)
     IN  IF raised # "none"
           THEN request' = [request EXCEPT !.stage = "rejected", !.error = raised]
         ELSE IF handle(request.parsed) = "series"
           THEN request' = [request EXCEPT
                              !.stage = "done",
                              !.response = [ i \in 1..Len(instances) |-> instances[i].metadata ]]
         ELSE IF found = <<>>
           THEN request' = [request EXCEPT !.stage = "rejected", !.error = "KeyError"]
         ELSE request' = [request EXCEPT !.stage = "done",
                                         !.response = <<found[1].metadata>>]
  /\ UNCHANGED <<store, steals, offered, codec, init_args, serialized, deletion, pointer,
                 objects, pc, object, err, last_call>>


\* the URI of a metadata request of each level
StudyUri(study) == << <<"bucket">>, <<"studies">>, study, <<"metadata">> >>

SeriesUri(study, series) ==
  << <<"bucket">>, <<"studies">>, study, <<"series">>, series, <<"metadata">> >>

InstanceUri(study, series, instance) ==
  << <<"bucket">>, <<"studies">>, study, <<"series">>, series,
     <<"instances">>, instance, <<"metadata">> >>

\* strings that are no UID, and UIDs too short for a Series Object
BadUids == { <<>>, <<"1", ".">>, <<".", "1">>, <<"x">>, <<"1", ".", ".", "2">>, <<"1">>,
             LongUid("x") }

\* request strings of every kind that from_request and handle tell apart
RequestShapes ==
  { Request("GET", "gs://", InstanceUri(STUDY_UID, SERIES_UID, u)) :
      u \in BadUids \cup {<<"2">>, <<"1", ".", "2">>} }
  \cup { Request("GET", "gs://", InstanceUri(STUDY_UID, u, <<"1">>)) : u \in BadUids }
  \cup { Request("GET", "gs://", InstanceUri(u, SERIES_UID, <<"1">>)) : u \in BadUids }
  \cup { Request("GET", "gs://", SeriesUri(STUDY_UID, u)) : u \in BadUids \cup {SERIES_UID} }
  \cup { Request("GET", "gs://", StudyUri(u)) : u \in BadUids \cup {STUDY_UID} }
  \cup { Request("GET", "gs://",
                 SubSeq(InstanceUri(STUDY_UID, SERIES_UID, <<"1">>), 1, 7)
                   \o << <<"frames">>, f >>) :
           f \in { <<"1">>, <<"1", ",", "2">>, <<"x">>, <<"1", ",">>, <<>> } }
  \cup { Request("GET", "gs://",
                 SubSeq(InstanceUri(STUDY_UID, SERIES_UID, <<"1">>), 1, 7)
                   \o << <<"frames">>, <<>>, <<"metadata">> >>),
         Request("GET", "gs://",
                 SubSeq(SeriesUri(STUDY_UID, SERIES_UID), 1, 5) \o << <<"metadata", "?", "x">> >>),
         Request("GET", "gs://", SubSeq(SeriesUri(STUDY_UID, SERIES_UID), 1, 5)),
         Request("GET", "gs://", << <<"bucket">>, <<"metadata">> >>),
         Request("GET", "s3://", SeriesUri(STUDY_UID, SERIES_UID)),
         Request("POST", "gs://", SeriesUri(STUDY_UID, SERIES_UID)),
         Request("DELETE", "gs://", InstanceUri(STUDY_UID, SERIES_UID, <<"1">>)) }

\* well-formed requests for the series of the store and for another one
SeriesRequests ==
  { Request("GET", "gs://", InstanceUri(STUDY_UID, SERIES_UID, InstanceUid(uid))) :
      uid \in {1, 2} }
  \cup { Request("GET", "gs://", SeriesUri(STUDY_UID, SERIES_UID)),
         Request("GET", "gs://", SeriesUri(STUDY_UID, OTHER_SERIES_UID)) }

\* a store with one instance and every shape of request, no writer; and a
\* store with one instance, a writer that appends another one of a lower
\* UID, and requests for the series
QueryScenarios ==
  { [Scenario(<<"a">>, {}, DEFAULT_MAX_INSTANCE_SIZE, DEFAULT_MAX_SERIES_SIZE)
       EXCEPT !.locks = {}, !.requests = RequestShapes],
    [Scenario(<<"b">>, {"a"}, DEFAULT_MAX_INSTANCE_SIZE, DEFAULT_MAX_SERIES_SIZE)
       EXCEPT !.requests = SeriesRequests] }

InitQuery == offered \in QueryScenarios /\ Start /\ Idle /\ Stored(offered.stored)

NextQuery ==
  \/ NextAppend
  \/ UploadErrorLogExists(1)
  \/ UploadErrorLogUpload(1)
  \/ ReceiveRequest
  \/ HandleRequest
  \/ HandleGetMetadata

\* one writer, and one request served beside it
SpecQuery == InitQuery /\ [][NextQuery]_vars

\* what the request string asks for that is not served: a verb other than
\* GET, a query string, a study, series or instance UID that is no UID, or
\* frames
Unsupported(text) ==
  \/ text.verb # "GET"
  \/ \E i \in 1..Len(text.segments) :
       \E j \in 1..Len(text.segments[i]) : text.segments[i][j] = "?"
  \/ \E level \in {"studies", "series", "instances"} :
       /\ in_uri(text.segments, level)
       /\ ~is_valid_uid(extract_from_uri(text.segments, level).text)
  \/ in_uri(text.segments, "frames")

\* C32: a request whose verb is not GET, whose URI has a query string,
\* whose study, series or instance UID is no UID, or that addresses frames,
\* is rejected with an error: it is never answered, and no Series Object is
\* constructed for it
C32_UnsupportedRequestIsRejected ==
  request.stage # "idle" /\ Unsupported(request.text)
    => /\ request.stage \in {"parsed", "rejected"}
       /\ ~request.opened
       /\ request.response = <<>>

\* an unsupported request none of whose UIDs is the empty string, and whose
\* list of frames is not, is rejected before the store is touched
C32_ExceptEmptyUid ==
  /\ request.stage # "idle"
  /\ Unsupported(request.text)
  /\ \A level \in {"studies", "series", "instances", "frames"} :
       in_uri(request.text.segments, level)
         => extract_from_uri(request.text.segments, level).text # <<>>
  => /\ request.stage \in {"parsed", "rejected"}
     /\ ~request.opened
     /\ request.response = <<>>

\* a request with an empty instance UID was answered as a series level
\* request
C32_EmptyInstanceUidAnswered ==
  /\ request.stage = "done"
  /\ extract_from_uri(request.text.segments, "instances") = Some(<<>>)
  /\ request.opened

\* the request being served asks for the metadata of the series that the
\* store holds, at series level or for an instance whose metadata is synced
AsksForStored ==
  /\ addresses_series(request.parsed)
  /\ metadata_blob.exists
  /\ \/ handle(request.parsed) = "series"
     \/ /\ handle(request.parsed) = "instance"
        /\ \E uid \in Keys(metadata_blob.body) :
             request.parsed.instance_uid = Some(InstanceUid(uid))

\* the answer that the synced metadata gives to the request: the header of
\* the instance asked for, or the headers of all instances in the order of
\* their insertion
Answer ==
  IF handle(request.parsed) = "series"
    THEN [ i \in 1..Len(metadata_blob.body) |-> metadata_blob.body[i].metadata ]
    ELSE LET uid == CHOOSE k \in Keys(metadata_blob.body) :
                      request.parsed.instance_uid = Some(InstanceUid(k))
         IN  << [SOPInstanceUID |-> uid] >>

\* every step of serving a request leaves the store, the lock included, and
\* the writers as they are
ServedWithoutWriting ==
  [][HandleRequest \/ HandleGetMetadata \/ ReceiveRequest
       => UNCHANGED <<store, objects, pc, object>>]_vars

\* C33, as stated: a request for a synced instance, or for the series, is
\* served without an error at every step, with the header stored for the
\* instance (its SOP Instance UID is the one asked for) or the headers of
\* all stored instances in insertion order, and nothing in the store changes
C33_QueryRoundTrip ==
  /\ [][(HandleRequest \/ HandleGetMetadata) /\ AsksForStored
          => /\ request'.error = "none"
             /\ request'.stage = "done" => request'.response = Answer]_vars
  /\ ServedWithoutWriting

\* C33, amended: the same while the series has no error log; with an error
\* log the construction of the Series Object raises ErrorLogExistsError and
\* the request is not answered
C33_QueryRoundTripWithoutErrorLog ==
  /\ [][(HandleRequest \/ HandleGetMetadata) /\ AsksForStored
          => /\ ~error_log.exists \/ HandleGetMetadata
                  => /\ request'.error = "none"
                     /\ request'.stage = "done" => request'.response = Answer
             /\ HandleRequest /\ error_log.exists
                  => /\ request'.error = "ErrorLogExistsError"
                     /\ request'.response = <<>>]_vars
  /\ ServedWithoutWriting

\* an instance level request for the instance that the writer appended and
\* synced was answered with its header, and a series level request with the
\* headers of both instances, the instance stored first coming first
C33_Witness ==
  /\ request.stage = "done"
  /\ Len(metadata_blob.body) = 2
  /\ \/ /\ request.parsed.instance_uid = Some(InstanceUid(1))
        /\ request.response = << [SOPInstanceUID |-> 1] >>
     \/ /\ handle(request.parsed) = "series"
        /\ request.response = << [SOPInstanceUID |-> 2], [SOPInstanceUID |-> 1] >>

(* ------------------------- appending in steps -------------------------- *)

\* instances A, B and C of one series
ConcatFiles == <<"a", "b", "c">>

\* the groupings of the test: all three, the first two, the last two
Grouping(from, to) == [ i \in 1..(to - from + 1) |-> Input(ConcatFiles[from + i - 1]) ]

\* an empty series and writers that append the groupings
ConcatScenarios ==
  { [Scenario(<<>>, {}, DEFAULT_MAX_INSTANCE_SIZE, DEFAULT_MAX_SERIES_SIZE)
       EXCEPT !.groups = {Grouping(1, 3), Grouping(1, 2), Grouping(2, 3)}] }

InitConcat == offered \in ConcatScenarios /\ Start /\ Idle /\ Stored(offered.stored)

\* one writer after another, each appending and syncing groupings of A, B, C
SpecConcat == InitConcat /\ [][NextAppend]_vars

\* what _assert_metadata_equal compares: the instances with their content
\* hash, size and URI in the tar
Compared(instances) ==
  { [uid |-> instances[i].uid, crc |-> instances[i].crc, size |-> instances[i].size,
     uri |-> <<"tar", "instances", instances[i].uid>>] : i \in 1..Len(instances) }

\* the metadata that one append of A, B, C to the empty series makes
AtOnce == handle_create_metadata(<<>>, <<>>, Grouping(1, 3))

MaxDependencies == 2

\* a _delete_gcs_dep that deletes whatever the hash of the blob
delete_gcs_dep_unvalidated(blob, expected_crc32c) == blob.exists

\* _delete_gcs_dep: whether the blob is deleted; expected_crc32c is 0 for
\* None
delete_gcs_dep(blob, expected_crc32c) ==
  IF ~blob.exists THEN FALSE
  ELSE IF expected_crc32c # 0 /\ blob.crc # expected_crc32c THEN FALSE
  ELSE TRUE

\* Instance.delete_dependencies is called on an instance with some list of
\* dependencies; a dry run returns the list as it is
DeleteDependencies ==
  /\ deletion.stage = "idle"
  /\ \E dependencies \in SeqsUpTo(Dependencies, MaxDependencies),
        dryrun \in BOOLEAN, validate_blob_hash \in BOOLEAN, inst \in {Input("a")} :
       deletion' = [deletion EXCEPT
                      !.dependencies = dependencies,
                      !.dryrun = dryrun,
                      !.validate_blob_hash = validate_blob_hash,
                      !.crc32c = crc32c(inst, FALSE),
                      !.at = 1,
                      !.returned = IF dryrun THEN dependencies ELSE <<>>,
                      !.stage = IF dryrun \/ dependencies = <<>> THEN "returned"
                                ELSE "running"]
  /\ UNCHANGED <<store, steals, offered, codec, init_args, serialized, request, pointer,
                 objects, pc, object, err, last_call>>

\* one turn of the loop of delete_dependencies
DeleteDependency ==
  /\ deletion.stage = "running"
  /\ LET uri == deletion.dependencies[deletion.at]
         expected_crc32c ==
           IF deletion.validate_blob_hash /\ Len(deletion.dependencies) = 1
             THEN deletion.crc32c ELSE 0
         deleted == IF uri.scheme = "gs://"
                      THEN delete_gcs_dep(deletion.blobs[uri], expected_crc32c)
                      ELSE deletion.blobs[uri].exists
         appended == uri.scheme = "gs://" \/ deletion.blobs[uri].exists
     IN  IF uri.nested
           THEN deletion' = [deletion EXCEPT !.stage = "raised",
                                             !.error = "NotImplementedError"]
           ELSE deletion' =
                  [deletion EXCEPT
                     !.blobs = IF deleted THEN [deletion.blobs EXCEPT ![uri] = Absent]
                               ELSE deletion.blobs,
                     !.removed = IF deleted THEN Append(deletion.removed, uri)
                                 ELSE deletion.removed,
                     !.returned = IF appended THEN Append(deletion.returned, uri)
                                  ELSE deletion.returned,
                     !.at = deletion.at + 1,
                     !.stage = IF deletion.at = Len(deletion.dependencies) THEN "returned"
                               ELSE "running"]
  /\ UNCHANGED <<store, steals, offered, codec, init_args, serialized, request, pointer,
                 objects, pc, object, err, last_call>>

\* the instance was packed from a file of CRC32C 11; at each dependency URI
\* there is nothing, the file itself, or something else
InitDelete ==
  /\ offered = Scenario(<<"a">>, {}, DEFAULT_MAX_INSTANCE_SIZE, DEFAULT_MAX_SERIES_SIZE)
  /\ Start
  /\ codec = NoCodec
  /\ init_args = [w \in Writers |-> DefaultArgs]
  /\ serialized = NoState
  /\ request = NoRequest
  /\ pointer = NoPointer
  /\ Stored(offered.stored)
  /\ deletion \in { [NoDeletion EXCEPT !.blobs = blobs] :
                      blobs \in { b \in [Dependencies ->
                                           {Absent, [exists |-> TRUE, crc |-> Input("a").crc],
                                            [exists |-> TRUE, crc |-> Input("a2").crc]}] :
                                    \A d \in Dependencies : d.nested => b[d] = Absent } }

NextDelete ==
  \/ DeleteDependencies
  \/ DeleteDependency

\* one call of delete_dependencies
SpecDelete == InitDelete /\ [][NextDelete]_vars

\* the turn of the loop deletes the blob or file at the dependency
Deletes(uri) == deletion.blobs[uri].exists /\ ~deletion'.blobs[uri].exists

\* C35: in a call that is no dry run, a turn for the single dependency with
\* hash validation enabled deletes the blob only if the CRC32C of the blob
\* is the true CRC32C of the instance; a turn with more dependencies or
\* validation disabled leaves no blob or file at the dependency; a turn for
\* a nested dependency raises NotImplementedError and deletes nothing; and
\* only the dependency of the turn is touched
C35_DeletionIsValidated ==
  [][DeleteDependency
       => LET uri == deletion.dependencies[deletion.at]
              single == deletion.validate_blob_hash /\ Len(deletion.dependencies) = 1
          IN  /\ uri.nested
                   => /\ deletion'.error = "NotImplementedError"
                      /\ deletion'.stage = "raised"
                      /\ deletion'.blobs = deletion.blobs
              /\ ~uri.nested /\ single /\ uri.scheme = "gs://"
                   => /\ Deletes(uri) => deletion.blobs[uri].crc = crc32c(Input("a"), FALSE)
                      /\ deletion.blobs[uri] = [exists |-> TRUE, crc |-> crc32c(Input("a"), FALSE)]
                           => Deletes(uri)
              /\ ~uri.nested /\ ~single
                   => /\ ~deletion'.blobs[uri].exists
                      /\ deletion'.error = "none"
              /\ \A other \in Dependencies \ {uri} :
                   deletion'.blobs[other] = deletion.blobs[other]]_vars

\* the call for a single dependency with validation returned: it deleted the
\* blob of the right hash, or left the blob of another hash where it was
C35_Witness ==
  /\ deletion.stage = "returned"
  /\ ~deletion.dryrun
  /\ deletion.validate_blob_hash
  /\ Len(deletion.dependencies) = 1
  /\ deletion.dependencies[1].scheme = "gs://"
  /\ \/ deletion.removed = deletion.dependencies
     \/ /\ deletion.removed = <<>>
        /\ deletion.blobs[deletion.dependencies[1]].exists

\* C40: a call that is no dry run returns exactly the dependency URIs whose
\* files or blobs it deleted
C40_ReturnsWhatWasDeleted ==
  deletion.stage = "returned" /\ ~deletion.dryrun
    => deletion.returned = deletion.removed

\* what the call returns: the URIs of what it deleted, and besides them
\* only URIs of blobs
C40_ReturnsBlobsDeletedOrNot ==
  deletion.stage = "returned" /\ ~deletion.dryrun
    => LET returned == { deletion.returned[i] : i \in 1..Len(deletion.returned) }
           removed  == { deletion.removed[i] : i \in 1..Len(deletion.removed) }
       IN  /\ removed \subseteq returned
           /\ \A uri \in returned \ removed : uri.scheme = "gs://"

\* the call returned the URI of a blob that it did not delete
C40_SkippedBlobReturned ==
  /\ deletion.stage = "returned"
  /\ ~deletion.dryrun
  /\ \E i \in 1..Len(deletion.returned) :
       /\ deletion.returned[i].scheme = "gs://"
       /\ \A j \in 1..Len(deletion.removed) : deletion.removed[j] # deletion.returned[i]

(* ------------------------- open nested in a tar ------------------------ *)

\* VirtualFile(master_file_pointer, start, stop): a pointer that enforces
\* the bounds [start, stop) atop the opened tar, reading stop - start bytes
\* from start
VirtualFile(start, stop) == [error |-> "none", start |-> start, stop |-> stop]

\* Instance._open_tar: the exception raised and the bounds given to
\* VirtualFile.  Without _byte_offsets the member is looked up in the index
\* of the tar and the offsets are set from its offset and the size
open_tar(has_byte_offsets, byte_offsets, index, uid, size_of_instance) ==
  LET internal_file_info == SelectSeq(index, LAMBDA row : row.uid = uid)
      found == has_byte_offsets \/ internal_file_info # <<>>
      start_byte == internal_file_info[1].start
      set_offsets == IF has_byte_offsets THEN byte_offsets
                     ELSE <<start_byte, start_byte + size_of_instance - 1>>
  IN  IF ~found
        THEN [error |-> "FileNotFoundError", start |-> 0, stop |-> 0]
        ELSE VirtualFile(set_offsets[1], set_offsets[2] + 1)

\* Instance.open on an instance nested in the tar of the temp directory: one
\* that append packed or that came with the loaded metadata, with the
\* _byte_offsets it carries, or an Instance made from the URI of the member
\* alone, without _byte_offsets
OpenInstance(w) ==
  /\ pc[w] = "held"
  /\ tar_file[w] # <<>>
  /\ \E i \in 1..Len(metadata[w].instances), has_byte_offsets \in BOOLEAN :
       LET inst == metadata[w].instances[i]
           ptr == open_tar(has_byte_offsets, <<inst.start, inst.stop>>,
                           create_sqlite_index(tar_file[w]), inst.uid, inst.size)
       IN  pointer' = [stage |-> "open", uid |-> inst.uid, size |-> inst.size,
                       has_byte_offsets |-> has_byte_offsets, error |-> ptr.error,
                       start |-> ptr.start, stop |-> ptr.stop]
  /\ UNCHANGED <<store, steals, offered, codec, init_args, serialized, request, deletion,
                 objects, pc, object, err, last_call>>

\* a series with one instance, and a writer that appends another
OpenScenarios ==
  { Scenario(<<"a">>, {"b"}, DEFAULT_MAX_INSTANCE_SIZE, DEFAULT_MAX_SERIES_SIZE),
    Scenario(<<>>, {"b", "c"}, DEFAULT_MAX_INSTANCE_SIZE, DEFAULT_MAX_SERIES_SIZE) }

InitOpen == offered \in OpenScenarios /\ Start /\ Idle /\ Stored(offered.stored)

NextOpen ==
  \/ NextAppend
  \/ OpenInstance(1)

\* one writer that appends, syncs and opens instances of its tar
SpecOpen == InitOpen /\ [][NextOpen]_vars

\* [start, stop) is the byte range of the instance and extra bytes behind
\* it: from the start that packing recorded for the instance (start_byte of
\* its metadata), or where the index has a member of its UID, as many bytes
\* as the instance has
Spans(w, ptr, extra) ==
  /\ ptr.stop = ptr.start + ptr.size + extra
  /\ IF ptr.has_byte_offsets
       THEN \E i \in 1..Len(metadata[w].instances) :
              /\ metadata[w].instances[i].uid = ptr.uid
              /\ metadata[w].instances[i].start = ptr.start
              /\ metadata[w].instances[i].stop = ptr.start + ptr.size
       ELSE \E i \in 1..Len(tar_file[w]) :
              /\ ScanTar(tar_file[w])[i].uid = ptr.uid
              /\ ScanTar(tar_file[w])[i].start = ptr.start

\* C36: the pointer that open returns for an instance nested in the tar
\* spans exactly the bytes [start, start + size) of the instance, however
\* the offsets were come by
C36_OpenYieldsRecordedRange ==
  [][OpenInstance(1) /\ pointer'.error = "none" => Spans(1, pointer', 0)]_vars

\* with the offsets of the index lookup the pointer spans exactly the
\* instance; with the offsets that packing recorded, or that the metadata
\* carries, it spans one byte more
C36_OneMoreUnlessLookedUp ==
  [][OpenInstance(1) /\ pointer'.error = "none"
       => Spans(1, pointer', IF pointer'.has_byte_offsets THEN 1 ELSE 0)]_vars

\* an instance that append has just packed was opened with the offsets that
\* packing recorded
C36_PackedInstanceOpened ==
  /\ pointer.stage = "open"
  /\ pointer.has_byte_offsets
  /\ pc[1] = "held"
  /\ \E i \in 1..Len(metadata[1].instances) :
       /\ metadata[1].instances[i].uid = pointer.uid
       /\ metadata[1].instances[i].cached
       /\ pointer.stop = metadata[1].instances[i].stop + 1

(* ------------------- release beside other lock holders ------------------ *)

\* C37: a writer never deletes a lock it does not own.  Whatever the other
\* writers, the operator and reconstituted Series Objects did between the
\* requests of a release, a step of the release removes a lock blob only of
\* the generation that the releasing writer remembers, and leaves a lock
\* blob of any other generation, created later by another writer, where it
\* is
C37_ReleaseDeletesOwnLock ==
  [][\A w \in Writers :
       ReleaseExists(w) \/ ReleaseReload(w) \/ ReleaseDelete(w)
         => /\ lock_blob' # lock_blob
                 => /\ lock_blob # 0
                    /\ lock_blob = lock_generation[w]
                    /\ lock_blob' = 0
            /\ lock_blob # lock_generation[w] => lock_blob' = lock_blob]_vars

\* the release of the first writer had verified its lock when the lock was
\* cleared and the second writer acquired: the delete of the first writer
\* found nothing of its generation, and the lock of the second writer is in
\* place
C37_Witness ==
  /\ pc[1] = "none"
  /\ err[1] = "NotFound"
  /\ pc[2] = "held"
  /\ lock[2]
  /\ lock_blob # 0
  /\ lock_blob = lock_generation[2]

(* ------------------------- a lock left hanging ------------------------- *)

\* the runs in which a caller leaves its scope with an exception and later
\* callers construct the series with every option of the constructor
HangingScenarios ==
  { [Scenario(<<>>, {"a"}, DEFAULT_MAX_INSTANCE_SIZE, DEFAULT_MAX_SERIES_SIZE)
       EXCEPT !.locks = BOOLEAN, !.overrides = BOOLEAN, !.creates = BOOLEAN] }

InitHanging == offered \in HangingScenarios /\ Start /\ Idle /\ Stored(offered.stored)

SpecHanging == InitHanging /\ [][NextApi]_vars

\* the lock blob is in the store and no live Series Object holds its
\* generation: its writer left without releasing it
Hanging ==
  /\ lock_blob # 0
  /\ \A v \in Writers : lock_generation[v] # lock_blob

\* the constructor of w with lock=True ends in LockAcquisitionError
FailsToAcquire(w) ==
  /\ AcquireReload(w)
  /\ pc'[w] = "none"
  /\ err'[w] = "LockAcquisitionError"

\* the constructor of w with lock=False returns an object that holds the
\* metadata last uploaded
ReadsSynced(w) ==
  /\ pc'[w] = "held"
  /\ err'[w] = "none"
  /\ ~lock'[w]
  /\ metadata'[w] = get_metadata(NoMetadata, metadata_blob)

\* C38 as stated: while a lock hangs, every construction with lock=True
\* fails with LockAcquisitionError and every construction with lock=False
\* succeeds and reads the last synced metadata.
C38_HangingLockClosesSeries ==
  [][ \A w \in Writers : Hanging =>
        /\ Construct(w) => pc'[w] # "none"
        /\ AcquireExists(w) => pc'[w] = "acq_reload"
        /\ AcquireReload(w) => FailsToAcquire(w)
        /\ InitFetchMetadata(w) => ReadsSynced(w) ]_vars

\* C38, amended: while a lock hangs, a construction that finds no error log
\* fails with LockAcquisitionError when lock=True, and when lock=False
\* succeeds and reads the last synced metadata, unless the series has no
\* metadata blob and create_if_missing=False (CODObjectNotFoundError).
C38_HangingLockClosesSeriesWithoutErrorLog ==
  [][ \A w \in Writers : Hanging =>
        /\ (Construct(w) /\ ~error_log.exists) => pc'[w] = init_proceed(lock'[w])
        /\ AcquireExists(w) => pc'[w] = "acq_reload"
        /\ AcquireReload(w) => FailsToAcquire(w)
        /\ InitFetchMetadata(w) =>
             \/ ReadsSynced(w)
             \/ /\ ~metadata_blob.exists
                /\ pc'[w] = "none"
                /\ err'[w] = "CODObjectNotFoundError" ]_vars

\* the first caller synced an instance and left with an exception; the
\* second construction, with lock=True, failed with LockAcquisitionError
C38_Witness ==
  /\ objects = 2
  /\ Hanging
  /\ metadata_blob.exists
  /\ ~error_log.exists
  /\ pc[1] = "none"
  /\ err[1] = "LockAcquisitionError"

(* --------------------------- sync, repeated --------------------------- *)

\* the sync of w failed in one of its uploads
FailedPartway(w) == pc[w] = "held" /\ err[w] = "UploadError"

\* the calls of a caller who stays in its scope, with the lock held, and
\* whose next call after a sync that failed in an upload is sync again
NextRetry ==
  \/ Construct(1)
  \/ AcquireExists(1)
  \/ AcquireFetchMetadata(1)
  \/ AcquireUpload(1)
  \/ ~FailedPartway(1) /\ AppendInstances(1)
  \/ SyncStart(1)
  \/ SyncVerify(1)
  \/ SyncUploadIndex(1)
  \/ SyncUploadTar(1)
  \/ SyncUploadMetadata(1)

\* the caller calls sync again as long as something is dirty, a sync that
\* has started goes on to its uploads, and an upload that is tried again and
\* again succeeds in the end
FairRetry ==
  /\ WF_vars(SyncStart(1))
  /\ WF_vars(SyncVerify(1))
  /\ SF_vars(SyncUploadIndex(1) /\ pc'[1] = sync_after_index)
  /\ SF_vars(SyncUploadTar(1) /\ tar_synced'[1])
  /\ SF_vars(SyncUploadMetadata(1) /\ metadata_synced'[1])

SpecRetry == InitAppend /\ [][NextRetry]_vars /\ FairRetry

\* a step of sync
SyncStep(w) ==
  SyncStart(w) \/ SyncVerify(w) \/ SyncUploadIndex(w) \/ SyncUploadTar(w)
    \/ SyncUploadMetadata(w)

\* C39, the order: sync sets the tar flag clean only in the step that
\* uploads the tar, after the index was uploaded in the same call, and the
\* metadata flag only in the step that uploads the metadata; a step of sync
\* that raises leaves both flags as they were.
C39_FlagsFollowUploads ==
  [][ \A w \in Writers : SyncStep(w) =>
        /\ (~tar_synced[w] /\ tar_synced'[w]) =>
             /\ sync_uploads'[w] = <<"index", "tar">>
             /\ index_blob = Blob(index_file[w].body)
             /\ tar_blob' = Blob(tar_file[w])
        /\ (~metadata_synced[w] /\ metadata_synced'[w]) =>
             /\ sync_uploads'[w][Len(sync_uploads'[w])] = "metadata"
             /\ metadata_blob' = Blob(to_gzipped_json(metadata[w].instances))
        /\ (tar_synced[w] => tar_synced'[w])
        /\ (metadata_synced[w] => metadata_synced'[w])
        /\ err'[w] # "none" =>
             /\ tar_synced'[w] = tar_synced[w]
             /\ metadata_synced'[w] = metadata_synced[w] ]_vars

\* C39, the recovery: after a sync that failed in an upload, the caller who
\* keeps the lock and calls sync again gets to a state with both flags
\* clean.
C39_RetryLeavesClean ==
  FailedPartway(1) ~> (pc[1] = "held" /\ tar_synced[1] /\ metadata_synced[1])

====
